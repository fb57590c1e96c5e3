------------------------------- MODULE Upload --------------------------------
(***************************************************************************)
(* validate.go: the checks FileUpload.Validate makes on an uploaded file,  *)
(* which is a stream with a position.  A check reads from where the file   *)
(* stands and puts it back to the start; each read and each seek may fail, *)
(* and then Validate returns at once and leaves the file where it is.  The *)
(* handler may read before, and may call Validate again.                   *)
(***************************************************************************)
EXTENDS Integers, FiniteSetsExt

CONSTANTS
  MaxInt,   \* the largest int64
  Files,    \* the files: their size, the type their first bytes show and
            \* the extension of their name
  Limits    \* the validators: MaxSize, AllowedTypes, AllowedExtensions

ASSUME MaxIntAssumption == MaxInt \in Nat \ {0}
ASSUME FilesAssumption ==
  Files \subseteq [size : 0 .. MaxInt, type : STRING, ext : STRING]
ASSUME LimitsAssumption ==
  Limits \subseteq [max : 0 .. MaxInt, types : SUBSET STRING, exts : SUBSET STRING]

VARIABLES
  file,     \* the file
  limits,   \* the validator
  at,       \* the position of the file
  check,    \* "closed", "open", or the check that is next: "size", "type", "ext"
  start,    \* history: the position when Validate was called
  verdict   \* "none", "accepted", "413", "415" or "error"

uploadVars == <<file, limits, at, check, start, verdict>>

Closed ==
  /\ file = CHOOSE f \in Files : TRUE
  /\ limits = CHOOSE l \in Limits : TRUE
  /\ at = 0 /\ check = "closed" /\ start = 0 /\ verdict = "none"

(* FormFile opens a file, and the handler makes a validator for it.        *)
Open ==
  /\ file' \in Files /\ limits' \in Limits
  /\ check' = "open" /\ at' = 0 /\ verdict' = "none"
  /\ UNCHANGED start

(* The handler reads on its own.                                           *)
HandlerReads ==
  /\ check = "open"
  /\ at' \in at .. file.size /\ verdict' = "none"
  /\ UNCHANGED <<file, limits, check, start>>

(* AddType and AddExtension: the first one of a kind enables its check.    *)
AddType(t) ==
  /\ check = "open"
  /\ limits' = [limits EXCEPT !.types = @ \cup {t}] /\ verdict' = "none"
  /\ UNCHANGED <<file, at, check, start>>

AddExtension(e) ==
  /\ check = "open"
  /\ limits' = [limits EXCEPT !.exts = @ \cup {e}] /\ verdict' = "none"
  /\ UNCHANGED <<file, at, check, start>>

Validate ==
  /\ check = "open"
  /\ check' = "size" /\ start' = at /\ verdict' = "none"
  /\ UNCHANGED <<file, limits, at>>

Ends(v) == check' = "open" /\ verdict' = v

(* What the LimitReader lets through; MaxSize + 1 may wrap around.         *)
Wrap(n) == IF n > MaxInt THEN n - 2 * (MaxInt + 1) ELSE n
Read    == Min({file.size - at, Max({0, Wrap(limits.max + 1)})})

(* The file is put back to its start.  Fault: it is not.                   *)
NotRewound == at + Read
Rewound    == 0

(* One byte more than MaxSize is enough to know.  Fault: off by one.       *)
OverByTwo == Read > limits.max + 1
TooLarge  == Read > limits.max

CheckSize ==
  /\ check = "size"
  /\ \/ limits.max = 0 /\ check' = "type" /\ UNCHANGED <<at, verdict>>
     \/ /\ limits.max > 0
        /\ \/ Ends("error") /\ at' \in at .. at + Read
           \/ /\ at' = Rewound
              /\ IF TooLarge THEN Ends("413")
                             ELSE check' = "type" /\ UNCHANGED verdict
  /\ UNCHANGED <<file, limits, start>>

(* What is read away from the start may look like anything.                *)
Allowed == IF at = 0 THEN {file.type \in limits.types} ELSE BOOLEAN

CheckType ==
  /\ check = "type"
  /\ \/ limits.types = {} /\ check' = "ext" /\ UNCHANGED <<at, verdict>>
     \/ /\ limits.types # {}
        /\ \/ Ends("error") /\ at' \in at .. file.size
           \/ /\ at' = 0
              /\ \/ TRUE \in Allowed /\ check' = "ext" /\ UNCHANGED verdict
                 \/ FALSE \in Allowed /\ Ends("415")
  /\ UNCHANGED <<file, limits, start>>

CheckExtension ==
  /\ check = "ext"
  /\ Ends(IF limits.exts = {} \/ file.ext \in limits.exts THEN "accepted" ELSE "415")
  /\ UNCHANGED <<file, limits, at, start>>

ValidateStep == Validate \/ CheckSize \/ CheckType \/ CheckExtension

-----------------------------------------------------------------------------
(* Properties.                                                             *)

Oversize == limits.max > 0 /\ file.size > limits.max
Misfit   == \/ limits.types # {} /\ file.type \notin limits.types
            \/ limits.exts # {} /\ file.ext \notin limits.exts

Decided == check = "open" /\ verdict \in {"accepted", "413", "415"}

(* A file that stood at its start is judged as its size, type and name     *)
(* deserve, size first.  From elsewhere, left there by the handler or by a *)
(* failed attempt, too much may pass as to size, but a rejection for size  *)
(* is right, and so is the rest if there was a size check.                 *)
VerdictDeserved ==
  Decided =>
    /\ verdict = "413" => Oversize
    /\ limits.max > 0 /\ verdict = "accepted" => ~Misfit
    /\ limits.max > 0 /\ verdict = "415" => Misfit
    /\ start = 0 => verdict = IF Oversize THEN "413"
                              ELSE IF Misfit THEN "415" ELSE "accepted"

(* Whatever the verdict, the file stands at its start for whoever stores   *)
(* it or tries again, if its content was looked at.                        *)
LeftAtStart ==
  Decided /\ (limits.max > 0 \/ limits.types # {}) => at = 0

-----------------------------------------------------------------------------
(* The inductive invariant behind these properties (see Input_proofs).     *)

Shape ==
  check # "closed" =>
    /\ file \in Files
    /\ limits \in [max : 0 .. MaxInt, types : SUBSET STRING, exts : SUBSET STRING]
    /\ at \in 0 .. file.size
    /\ check \in {"open", "size", "type", "ext"}

(* What the checks made so far have established.                           *)
TypeFits == limits.types = {} \/ file.type \in limits.types

Progress ==
  /\ check = "size" => at = start
  /\ check = "type" => /\ limits.max > 0 => at = 0
                       /\ start = 0 => at = 0 /\ ~Oversize
  /\ check = "ext"  => /\ limits.max > 0 => at = 0 /\ TypeFits
                       /\ limits.types # {} => at = 0
                       /\ start = 0 => at = 0 /\ TypeFits /\ ~Oversize

UploadInv == Shape /\ Progress /\ VerdictDeserved /\ LeftAtStart
=============================================================================
