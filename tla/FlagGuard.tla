------------------------------ MODULE FlagGuard ------------------------------
(***************************************************************************)
(* What a flag behind the ServerSender's lock promises those who test and  *)
(* set it: whoever finds it clear owns what it guards until they clear it  *)
(* themselves.  Nobody joins an owner, nobody but an owner clears the      *)
(* flag, and it is set exactly while there is an owner, so that it never   *)
(* locks everyone out.  ClientConnection implements it with is_try_connect *)
(* and Discovery with is_try_connect and with is_scanning.                 *)
(***************************************************************************)
CONSTANT Owners    \* those who may try

VARIABLES flag,    \* what the others see
          owners   \* who owns the guarded thing: nobody, or one of them

vars == <<flag, owners>>

Init == flag = FALSE /\ owners = {}

Acquire(o) == /\ owners = {}
              /\ flag' = TRUE /\ owners' = {o}

Release(o) == /\ owners = {o}
              /\ flag' = FALSE /\ owners' = {}

Next == \E o \in Owners : Acquire(o) \/ Release(o)

Spec == Init /\ [][Next]_vars
=============================================================================
