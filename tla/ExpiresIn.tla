----------------------------- MODULE ExpiresIn -----------------------------
(***************************************************************************)
(* How Create and Update turn "<N>h" or "<N>d" into a lifetime:            *)
(* ValidateExpiresIn of src/internal/shortener/validator.go judges the     *)
(* text, parseExpiresIn of service_impl.go then computes the duration from *)
(* the same text, both in 64-bit integers that wrap around. Texts that do  *)
(* not parse are refused by both and left out.                             *)
(***************************************************************************)
EXTENDS Integers

CONSTANTS
  Half,       \* 2^63: an int64 is in -Half .. Half - 1
  DayHours,   \* 24
  MaxHours,   \* maxExpiresHours
  Hour        \* time.Hour, in nanoseconds

ASSUME WidthAssumption ==
  /\ {Half, DayHours, MaxHours, Hour} \subseteq Nat \ {0}
  /\ MaxHours * Hour < Half

VARIABLES
  n, unit,    \* what the text says
  pc,         \* "asked", "valid", "refused" or "parsed"
  dur         \* the time.Duration of parseExpiresIn

vars == <<n, unit, pc, dur>>

Int64 == -Half .. Half - 1

Wrap(x) ==
  LET m == x % (2 * Half) IN IF m < Half THEN m ELSE m - 2 * Half

TypeOK ==
  /\ n \in Int64 /\ dur \in Int64
  /\ unit \in {"h", "d"}
  /\ pc \in {"asked", "valid", "refused", "parsed"}

Init ==
  /\ n \in Int64
  /\ unit \in {"h", "d"}
  /\ pc = "asked"
  /\ dur = 0

(* What is asked for, in hours.                                            *)
Asked == IF unit = "h" THEN n ELSE n * DayHours

(* Mutant: the bounds are checked on the number, not on the hours.         *)
InHours_Number == n

(* The hours ValidateExpiresIn computes.                                   *)
InHours == Wrap(Asked)

(* ValidateExpiresIn.                                                      *)
Validate ==
  /\ pc = "asked"
  /\ pc' = IF n > 0 /\ InHours \in 1..MaxHours THEN "valid" ELSE "refused"
  /\ UNCHANGED <<n, unit, dur>>

(* Mutants: the duration is kept in a wider type; the unit is forgotten.   *)
Parse_Wide ==
  /\ pc = "valid"
  /\ dur' = Asked * Hour
  /\ pc' = "parsed"
  /\ UNCHANGED <<n, unit>>

Parse_NoUnit ==
  /\ pc = "valid"
  /\ dur' = Wrap(n * Hour)
  /\ pc' = "parsed"
  /\ UNCHANGED <<n, unit>>

(* parseExpiresIn, on the text that was validated.                         *)
Parse ==
  /\ pc = "valid"
  /\ dur' = Wrap(Wrap(Asked) * Hour)
  /\ pc' = "parsed"
  /\ UNCHANGED <<n, unit>>

Next == Validate \/ Parse

Spec == Init /\ [][Next]_vars

----------------------------------------------------------------------------
(* No lifetime is outside [1h, 365d], whatever wraps around on the way:    *)
(* the wrapped hours are judged, and the same hours make the duration.     *)
LifetimeBounded == pc = "parsed" => Hour <= dur /\ dur <= MaxHours * Hour

(* A text within [1h, 365d] is accepted and gives exactly what it says.    *)
AskedIsGranted ==
  Asked \in 1..MaxHours =>
    /\ pc # "refused"
    /\ pc = "parsed" => dur = Asked * Hour
=============================================================================
