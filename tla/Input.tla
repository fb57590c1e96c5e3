-------------------------------- MODULE Input --------------------------------
(***************************************************************************)
(* An endpoint that reads its request by the calls of Binding, opens an    *)
(* uploaded file with FormFile and has Ctx.Validate check it: Binding and  *)
(* Upload meet in the multipart form, which FormFile must have parsed.     *)
(***************************************************************************)
EXTENDS Binding, Upload

vars == <<bindVars, uploadVars>>

Init == Unread /\ Closed

(* The endpoint makes its calls one after the other.                       *)
BetweenBinds  == source = "none"
BetweenChecks == check \in {"closed", "open"}

(* A file in hand is closed before the next one is opened.                 *)
OpenFile == /\ FormFile /\ BetweenChecks
            /\ IF FileFound THEN Open ELSE UNCHANGED uploadVars

Next ==
  \/ BindStep /\ BetweenChecks /\ UNCHANGED uploadVars
  \/ OpenFile
  \/ /\ BetweenBinds /\ UNCHANGED bindVars
     /\ \/ HandlerReads \/ ValidateStep
        \/ \E l \in Limits : \/ \E t \in l.types : AddType(t)
                             \/ \E e \in l.exts : AddExtension(e)

Spec == Init /\ [][Next]_vars
=============================================================================
