-------------------------- MODULE ExpiresInProofs --------------------------
(***************************************************************************)
(* Proofs about ExpiresIn, for every width of the integers and every       *)
(* length of the hour that leaves MaxHours hours representable.            *)
(***************************************************************************)
EXTENDS ExpiresIn, TLAPS

(* Wrap maps into an int64 and leaves what fits alone.                     *)
LEMMA WrapInt64 ==
  ASSUME NEW x \in Int
  PROVE  /\ Wrap(x) \in Int64
         /\ x \in Int64 => Wrap(x) = x
<1> DEFINE m == x % (2 * Half)
<1>1. Half \in Nat \ {0} BY WidthAssumption
<1>2. m \in 0 .. 2 * Half - 1 BY <1>1
<1>3. ASSUME x \in 0 .. Half - 1 PROVE m = x BY <1>1, <1>3
<1>4. ASSUME x \in -Half .. -1 PROVE m = x + 2 * Half BY <1>1, <1>4
<1>5. Wrap(x) = IF m < Half THEN m ELSE m - 2 * Half BY DEF Wrap
<1>6. Wrap(x) \in Int64 BY <1>1, <1>2, <1>5 DEF Int64
<1>7. ASSUME x \in Int64 PROVE Wrap(x) = x
  <2>1. CASE x \in 0 .. Half - 1 BY <1>1, <1>3, <1>5, <2>1
  <2>2. CASE x \in -Half .. -1 BY <1>1, <1>4, <1>5, <2>2
  <2> QED BY <1>1, <1>7, <2>1, <2>2 DEF Int64
<1> QED BY <1>6, <1>7

(* As many hours as are allowed fit into a duration.                       *)
LEMMA HoursFit ==
  ASSUME NEW h \in 1 .. MaxHours
  PROVE  /\ h * Hour \in Int64
         /\ Hour <= h * Hour /\ h * Hour <= MaxHours * Hour
<1>1. /\ MaxHours \in Nat /\ Hour \in Nat \ {0} /\ Half \in Nat
      /\ MaxHours * Hour < Half
  BY WidthAssumption
<1>2. h \in Int /\ 1 <= h /\ h <= MaxHours BY <1>1
<1>3. h * Hour \in Int BY <1>1, <1>2
<1>4. Hour <= h * Hour
  <2>1. 0 <= (h - 1) * Hour BY <1>1, <1>2
  <2> QED BY <1>1, <1>2, <2>1
<1>5. h * Hour <= MaxHours * Hour
  <2>1. 0 <= (MaxHours - h) * Hour BY <1>1, <1>2
  <2> QED BY <1>1, <1>2, <2>1
<1> QED BY <1>1, <1>3, <1>4, <1>5 DEF Int64

LEMMA AskedInt ==
  ASSUME TypeOK
  PROVE  Asked \in Int
BY WidthAssumption DEF TypeOK, Int64, Asked

(* The hours are judged after they have wrapped around, and what is parsed *)
(* comes from the same hours.                                              *)
Judged ==
  /\ pc \in {"valid", "parsed"} => InHours \in 1 .. MaxHours
  /\ pc = "parsed" => dur = InHours * Hour
  /\ pc = "refused" => ~(n > 0 /\ InHours \in 1 .. MaxHours)

Inv == TypeOK /\ Judged

LEMMA InitInv == Init => Inv
<1> SUFFICES ASSUME Init PROVE Inv OBVIOUS
<1>1. 0 \in Int64 BY WidthAssumption DEF Int64
<1> QED BY <1>1 DEF Init, Inv, TypeOK, Judged

LEMMA StepInv == Inv /\ [Next]_vars => Inv'
<1> SUFFICES ASSUME Inv, [Next]_vars PROVE Inv' OBVIOUS
<1> USE DEF Inv
<1>1. CASE Validate
  <2>1. TypeOK' BY <1>1 DEF Validate, TypeOK
  <2>2. InHours' = InHours BY <1>1 DEF Validate, InHours, Asked, Wrap
  <2> QED BY <1>1, <2>1, <2>2 DEF Validate, Judged
<1>2. CASE Parse
  <2>1. InHours \in 1 .. MaxHours BY <1>2 DEF Parse, Judged
  <2>2. InHours * Hour \in Int64 BY <2>1, HoursFit
  <2>3. Wrap(InHours * Hour) = InHours * Hour
    BY <2>2, WrapInt64, WidthAssumption DEF Int64
  <2>4. dur' = InHours * Hour BY <1>2, <2>3 DEF Parse, InHours
  <2>5. InHours' = InHours BY <1>2 DEF Parse, InHours, Asked, Wrap
  <2>6. TypeOK' BY <1>2, <2>2, <2>4 DEF Parse, TypeOK
  <2> QED BY <1>2, <2>1, <2>4, <2>5, <2>6 DEF Parse, Judged
<1>3. CASE UNCHANGED vars
  <2>1. InHours' = InHours BY <1>3 DEF vars, InHours, Asked, Wrap
  <2> QED BY <1>3, <2>1 DEF vars, TypeOK, Judged
<1> QED BY <1>1, <1>2, <1>3 DEF Next

LEMMA Invariant == Spec => []Inv
BY InitInv, StepInv, PTL DEF Spec

(* Whatever number a request names, the lifetime it gets is at least an    *)
(* hour and at most MaxHours: no wrap-around in ValidateExpiresIn or       *)
(* parseExpiresIn leads outside.                                           *)
THEOREM LifetimesAreBounded == Spec => []LifetimeBounded
<1>1. Inv => LifetimeBounded
  <2> SUFFICES ASSUME Inv, pc = "parsed" PROVE Hour <= dur /\ dur <= MaxHours * Hour
    BY DEF LifetimeBounded
  <2>1. InHours \in 1 .. MaxHours /\ dur = InHours * Hour BY DEF Inv, Judged
  <2> QED BY <2>1, HoursFit
<1> QED BY <1>1, Invariant, PTL

(* A text that names between one hour and MaxHours is never refused and    *)
(* gives exactly the lifetime it names.                                    *)
THEOREM WhatIsAskedIsGranted == Spec => []AskedIsGranted
<1>1. Inv => AskedIsGranted
  <2> SUFFICES ASSUME Inv, Asked \in 1 .. MaxHours
               PROVE  /\ pc # "refused"
                      /\ pc = "parsed" => dur = Asked * Hour
    BY DEF AskedIsGranted
  <2>1. Asked \in Int64
    <3>1. MaxHours \in Nat /\ Hour \in Nat \ {0} /\ Half \in Nat /\ MaxHours * Hour < Half
      BY WidthAssumption
    <3>2. MaxHours <= MaxHours * Hour
      <4>1. 0 <= MaxHours * (Hour - 1) BY <3>1
      <4> QED BY <3>1, <4>1
    <3> QED BY <3>1, <3>2 DEF Int64
  <2>2. InHours = Asked BY <2>1, AskedInt, WrapInt64 DEF Inv, InHours
  <2>3. n > 0
    <3>1. n \in Int /\ DayHours \in Nat \ {0} BY WidthAssumption DEF Inv, TypeOK, Int64
    <3>2. CASE unit = "h" BY <3>1, <3>2 DEF Asked
    <3>3. CASE unit # "h"
      <4>1. n * DayHours >= 1 BY <3>3, WidthAssumption DEF Asked
      <4> QED BY <3>1, <4>1
    <3> QED BY <3>2, <3>3
  <2> QED BY <2>2, <2>3 DEF Inv, Judged
<1> QED BY <1>1, Invariant, PTL

(* The variables keep their types, which the proofs about Intake need.     *)
LEMMA TypeCorrect == Spec => []TypeOK
<1>1. Inv => TypeOK BY DEF Inv
<1> QED BY <1>1, Invariant, PTL
=============================================================================
