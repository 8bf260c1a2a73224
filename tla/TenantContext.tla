---------------------------- MODULE TenantContext ----------------------------
(* The tenant that the running code works for, as django-boundary keeps it:    *)
(* the context variable of a thread and the session variable of its database   *)
(* connection, which the policies of row-level security read.                  *)
EXTENDS Sequences, SequencesExt

NoTenant == "none"

(* outer: the tenants that tokens and contexts will restore, innermost first;  *)
(* open: whether a transaction is open.                                        *)
NewSession == [tenant |-> NoTenant, variable |-> NoTenant, outer |-> <<>>, open |-> FALSE]

(* set_config(name, value, true): the value lasts until the transaction ends,  *)
(* so that outside a transaction it is gone with the statement.                *)
SetConfig(s, value) == IF s.open THEN [s EXCEPT !.variable = value] ELSE s

(* TenantContext.set, and its token.                                           *)
SetTenant(s, t) ==
  LET entered == [s EXCEPT !.tenant = t, !.outer = Cons(s.tenant, @)] IN
  IF t = NoTenant THEN entered ELSE SetConfig(entered, t)

(* _current_tenant.reset(token).                                               *)
Restored(s) == [s EXCEPT !.tenant = Head(s.outer), !.outer = Tail(@)]

(* TenantContext.clear(token), which empties the session variable even when    *)
(* the token restores a tenant.                                                *)
ClearTenant(s) == SetConfig(Restored(s), NoTenant)

(* The end of a block "with TenantContext.using(tenant)".                      *)
\* Mutant: the session variable is cleared whatever the outer tenant.
LeaveUsingCleared(s) == SetConfig(Restored(s), NoTenant)
LeaveUsing(s) == SetConfig(Restored(s), Head(s.outer))

OpenTransaction(s) == [s EXCEPT !.open = TRUE]
CloseTransaction(s) == [s EXCEPT !.open = FALSE, !.variable = NoTenant]

(* What a query through TenantManager returns of the rows of some tenants.     *)
(* With no tenant it is not filtered; in strict mode it raises.                *)
Managed(rows, s, strict) ==
  IF s.tenant # NoTenant THEN rows \cap {s.tenant} ELSE IF strict THEN {} ELSE rows

(* The isolation policy: rows whose tenant is that of the session variable.    *)
Permitted(rows, s) == rows \cap {s.variable}
=============================================================================
