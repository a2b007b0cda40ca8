---------------------------- MODULE IntakeProofs ----------------------------
(***************************************************************************)
(* Proofs about Intake, for any hosts, any answers of the resolver, any    *)
(* number of redirects and pages of any length.                            *)
(***************************************************************************)
EXTENDS Intake, ExpiresInProofs

(* What a step of Create does to the lifetime is a step of ExpiresIn.      *)
LEMMA LifetimeStep == [IntakeNext]_allVars => [Next]_vars
<1> SUFFICES ASSUME [IntakeNext]_allVars PROVE [Next]_vars OBVIOUS
<1>1. CASE Expires BY <1>1 DEF Expires, Next
<1>2. CASE \/ ValidateURL \/ Check \/ Dial \/ Answer \/ ReadToken \/ ReadEnds \/ Store
  BY <1>2 DEF ValidateURL, Check, Dial, Answer, ReadToken, ReadEnds, Store
<1>3. CASE UNCHANGED allVars BY <1>3 DEF allVars
<1> QED BY <1>1, <1>2, <1>3 DEF IntakeNext

(* The lifetimes of Create are those of ExpiresIn, and so its theorems hold*)
(* of Create.                                                              *)
THEOREM IntakeLifetimes == IntakeSpec => [](LifetimeBounded /\ AskedIsGranted)
<1>1. IntakeInit => Init BY DEF IntakeInit
<1>2. IntakeSpec => Spec BY <1>1, LifetimeStep, PTL DEF IntakeSpec, Spec
<1> QED BY <1>2, LifetimesAreBounded, WhatIsAskedIsGranted, PTL

(* Whatever the resolver answers from one lookup to the next, and wherever *)
(* a site redirects to, the preview connects to public addresses only.     *)
THEOREM PreviewStaysPublic == IntakeSpec => []PublicOnly
<1>1. NoAddress \notin Private BY HostAssumption
<1>2. IntakeInit => PublicOnly BY <1>1 DEF IntakeInit, PublicOnly
<1>3. PublicOnly /\ [IntakeNext]_allVars => PublicOnly'
  <2> SUFFICES ASSUME PublicOnly, [IntakeNext]_allVars PROVE PublicOnly' OBVIOUS
  <2>1. CASE Dial
    <3>1. ASSUME NEW ips \in Answers(host), ~AnyPrivate(ips) PROVE ips[1] \notin Private
      <4>1. 1 \in DOMAIN ips BY <3>1 DEF Answers
      <4> QED BY <3>1, <4>1 DEF AnyPrivate
    <3> QED BY <1>1, <2>1, <3>1 DEF Dial, GiveUp, Done, PublicOnly
  <2>2. CASE Answer BY <1>1, <2>2 DEF Answer, GiveUp, Done, PublicOnly
  <2>3. CASE \/ ValidateURL \/ Check \/ Expires \/ ReadToken \/ ReadEnds \/ Store
             \/ UNCHANGED allVars
    BY <2>3 DEF ValidateURL, Check, Expires, ReadToken, ReadEnds, Store, allVars, intakeVars,
                webVars, PublicOnly
  <2> QED BY <2>1, <2>2, <2>3 DEF IntakeNext
<1> QED BY <1>2, <1>3, PTL DEF IntakeSpec

----------------------------------------------------------------------------
(* i is the first of S, and v what the page says there; v is Blank if there*)
(* is none.                                                                *)
SaysFirst(S, v) ==
  \/ S = {} /\ v = Blank
  \/ \E i \in S : (\A j \in S : i <= j) /\ v = page[i].content

(* What has been found is what the part that was read says first, and the  *)
(* reader knows whether it is within a title.                              *)
Found ==
  /\ page \in Seq(Tokens)
  /\ meta \in [inTitle : BOOLEAN, html : Text \cup {Blank}, og : Text \cup {Blank}]
  /\ meta.inTitle <=> InTitle(Len(page))
  /\ SaysFirst(OgTitles, meta.og)
  /\ SaysFirst(TitleTexts, meta.html)

LEMMA FirstFound ==
  ASSUME NEW S \in SUBSET Nat, NEW v, SaysFirst(S, v)
  PROVE  v = First(S)
<1>1. CASE S = {} BY <1>1 DEF SaysFirst, First
<1>2. CASE S # {}
  <2>1. PICK i \in S : (\A j \in S : i <= j) /\ v = page[i].content
    BY <1>2 DEF SaysFirst
  <2>2. \A k \in S : (\A j \in S : k <= j) => k = i BY <2>1
  <2>3. Min(S) = i BY <2>1, <2>2 DEF Min
  <2> QED BY <1>2, <2>1, <2>3 DEF First
<1> QED BY <1>1, <1>2

(* One more token.                                                         *)
LEMMA FoundStep ==
  ASSUME Found, NEW t \in Tokens, page' = Append(page, t), meta' = Apply(meta, t)
  PROVE  Found'
<1>0. PICK k \in Nat : k = Len(page) + 1 BY DEF Found
<1>1. /\ Len(page) \in Nat /\ DOMAIN page = 1 .. Len(page) /\ k \in Nat
      /\ page' \in Seq(Tokens) /\ Len(page') = k /\ DOMAIN page' = DOMAIN page \cup {k}
      /\ k \notin DOMAIN page
      /\ \A i \in DOMAIN page : i \in Nat /\ i < k
      /\ \A i \in DOMAIN page : page'[i] = page[i]
      /\ page'[k] = t
  BY <1>0 DEF Found
<1>2. \A i \in DOMAIN page : InTitle(i)' <=> InTitle(i)
  BY <1>0, <1>1 DEF InTitle
<1>3. InTitle(k)' <=> (t.type = "title" \/ (t.type # "/title" /\ InTitle(Len(page))))
  <2>1. ASSUME t.type = "title" PROVE InTitle(k)'
    BY <1>0, <1>1, <2>1 DEF InTitle
  <2>2. ASSUME t.type = "/title" PROVE ~InTitle(k)'
    BY <1>0, <1>1, <2>2 DEF InTitle
  <2>3. ASSUME t.type \notin {"title", "/title"} PROVE InTitle(k)' <=> InTitle(Len(page))
    <3>1. ASSUME NEW m \in 1 .. Len(page), page[m].type = "title",
                 \A j \in m .. Len(page) : page[j].type # "/title"
          PROVE  InTitle(k)'
      <4>1. \A j \in m .. k : page'[j].type # "/title"
        BY <1>0, <1>1, <2>3, <3>1
      <4> QED BY <1>0, <1>1, <3>1, <4>1 DEF InTitle
    <3>2. ASSUME NEW m \in 1 .. k, page'[m].type = "title",
                 \A j \in m .. k : page'[j].type # "/title"
          PROVE  InTitle(Len(page))
      <4>1. m # k BY <1>0, <1>1, <2>3, <3>2
      <4>2. m \in 1 .. Len(page) BY <1>0, <1>1, <4>1
      <4> QED BY <1>0, <1>1, <3>2, <4>2 DEF InTitle
    <3> QED BY <1>0, <1>1, <3>1, <3>2 DEF InTitle
  <2> QED BY <2>1, <2>2, <2>3
<1>4. OgTitles' = IF t.type = "og" /\ t.content # Blank THEN OgTitles \cup {k} ELSE OgTitles
  BY <1>0, <1>1 DEF OgTitles
<1>5. TitleTexts' = IF t.type = "text" /\ t.content # Blank /\ InTitle(Len(page))
                    THEN TitleTexts \cup {k} ELSE TitleTexts
  BY <1>0, <1>1, <1>2, <1>3 DEF TitleTexts
<1>6. t.type \in {"og", "text", "title", "/title", "body", "other"} /\ t.content \in Text \cup {Blank}
  BY DEF Tokens
<1>7. ASSUME NEW S \in SUBSET DOMAIN page, NEW v,
             SaysFirst(S, v), \A i \in S : page[i].content # Blank
      PROVE  /\ SaysFirst(S, v)'
             /\ v # Blank => SaysFirst(S \cup {k}, v)'
             /\ v = Blank => S = {}
  <2>1. CASE S = {} BY <1>7, <2>1 DEF SaysFirst
  <2>2. CASE S # {}
    <3>1. PICK i \in S : (\A j \in S : i <= j) /\ v = page[i].content
      BY <1>7, <2>2 DEF SaysFirst
    <3>2. page'[i] = page[i] /\ i \in Nat /\ i < k /\ v # Blank BY <1>1, <1>7, <3>1
    <3> QED BY <1>0, <2>2, <3>1, <3>2 DEF SaysFirst
  <2> QED BY <2>1, <2>2
<1>8. ASSUME NEW v, v = t.content PROVE SaysFirst({k}, v)'
  BY <1>0, <1>1, <1>8 DEF SaysFirst
<1>9. /\ meta' \in [inTitle : BOOLEAN, html : Text \cup {Blank}, og : Text \cup {Blank}]
      /\ meta'.inTitle <=> (t.type = "title" \/ (t.type # "/title" /\ meta.inTitle))
      /\ meta'.og = IF t.type = "og" /\ meta.og = Blank THEN t.content ELSE meta.og
      /\ meta'.html = IF t.type = "text" /\ meta.inTitle /\ meta.html = Blank
                      THEN t.content ELSE meta.html
  BY <1>6 DEF Found, Apply
<1>10. SaysFirst(OgTitles, meta.og)'
  <2>1. OgTitles \in SUBSET DOMAIN page /\ \A i \in OgTitles : page[i].content # Blank
    BY DEF OgTitles
  <2>2. SaysFirst(OgTitles, meta.og) BY DEF Found
  <2>3. PICK S, v : S = OgTitles /\ v = meta.og OBVIOUS
  <2>4. PICK T, w : T = OgTitles' /\ w = meta'.og OBVIOUS
  <2>5. SaysFirst(T, w)'
    <3>1. CASE T = S /\ w = v BY <1>7, <2>1, <2>2, <2>3, <3>1
    <3>2. CASE T = S \cup {k} /\ v # Blank BY <1>7, <1>9, <2>1, <2>2, <2>3, <2>4, <3>2
    <3>3. CASE T = S \cup {k} /\ v = Blank
      <4>1. S = {} BY <1>7, <2>1, <2>2, <2>3, <3>3
      <4>2. w = t.content BY <1>4, <1>9, <2>3, <2>4, <3>3, <4>1
      <4> QED BY <1>8, <3>3, <4>1, <4>2
    <3>4. CASE T = S /\ w # v
      <4>1. v = Blank /\ w = t.content /\ t.type = "og" BY <1>9, <2>3, <2>4, <3>4
      <4>2. k \notin S BY <1>1, <2>1, <2>3
      <4>3. w = Blank BY <1>4, <2>3, <2>4, <3>4, <4>1, <4>2
      <4> QED BY <3>4, <4>1, <4>3
    <3> QED BY <1>4, <2>3, <2>4, <3>1, <3>2, <3>3, <3>4
  <2> QED BY <2>4, <2>5
<1>11. SaysFirst(TitleTexts, meta.html)'
  <2>1. TitleTexts \in SUBSET DOMAIN page /\ \A i \in TitleTexts : page[i].content # Blank
    BY DEF TitleTexts
  <2>2. SaysFirst(TitleTexts, meta.html) /\ (meta.inTitle <=> InTitle(Len(page))) BY DEF Found
  <2>3. PICK S, v : S = TitleTexts /\ v = meta.html OBVIOUS
  <2>4. PICK T, w : T = TitleTexts' /\ w = meta'.html OBVIOUS
  <2>5. SaysFirst(T, w)'
    <3>1. CASE T = S /\ w = v BY <1>7, <2>1, <2>2, <2>3, <3>1
    <3>2. CASE T = S \cup {k} /\ v # Blank BY <1>7, <1>9, <2>1, <2>2, <2>3, <2>4, <3>2
    <3>3. CASE T = S \cup {k} /\ v = Blank
      <4>1. S = {} BY <1>7, <2>1, <2>2, <2>3, <3>3
      <4>2. w = t.content BY <1>5, <1>9, <2>2, <2>3, <2>4, <3>3, <4>1
      <4> QED BY <1>8, <3>3, <4>1, <4>2
    <3>4. CASE T = S /\ w # v
      <4>1. v = Blank /\ w = t.content /\ t.type = "text" /\ InTitle(Len(page))
        BY <1>9, <2>2, <2>3, <2>4, <3>4
      <4>2. k \notin S BY <1>1, <2>1, <2>3
      <4>3. w = Blank BY <1>5, <2>3, <2>4, <3>4, <4>1, <4>2
      <4> QED BY <3>4, <4>1, <4>3
    <3> QED BY <1>5, <2>3, <2>4, <3>1, <3>2, <3>3, <3>4
  <2> QED BY <2>4, <2>5
<1>12. meta'.inTitle <=> InTitle(Len(page))'
  <2>1. Len(page)' = k BY <1>0, <1>1
  <2>2. InTitle(Len(page))' <=> InTitle(k)' BY <2>1
  <2> QED BY <1>3, <1>9, <2>2 DEF Found
<1> QED BY <1>1, <1>9, <1>10, <1>11, <1>12 DEF Found

(* The title that is stored is the one the page gives itself, as far as it *)
(* was read: its first og:title, or else the first text within a title.    *)
THEOREM TitlesAreRight == IntakeSpec => []TitleRight
<1> DEFINE I == Found /\ TitleRight
<1>1. IntakeInit => I
  <2> SUFFICES ASSUME IntakeInit PROVE I OBVIOUS
  <2>1. page = <<>> /\ meta = NoMeta /\ step # "stored" BY DEF IntakeInit
  <2>2. page \in Seq(Tokens) /\ DOMAIN page = {} /\ Len(page) = 0 BY <2>1
  <2>3. OgTitles = {} /\ TitleTexts = {} /\ ~InTitle(Len(page))
    BY <2>2 DEF OgTitles, TitleTexts, InTitle
  <2> QED BY <2>1, <2>2, <2>3 DEF Found, SaysFirst, NoMeta, TitleRight
<1>2. I /\ [IntakeNext]_allVars => I'
  <2> SUFFICES ASSUME Found, TitleRight, [IntakeNext]_allVars PROVE Found' /\ TitleRight' OBVIOUS
  <2>1. ASSUME UNCHANGED pageVars PROVE Found'
    BY <2>1 DEF pageVars, Found, SaysFirst, OgTitles, TitleTexts, InTitle
  <2>2. CASE ReadToken
    <3>1. PICK t \in Tokens : page' = Append(page, t) /\ meta' = Apply(meta, t) /\ step' # "stored"
      BY <2>2 DEF ReadToken
    <3> QED BY <3>1, FoundStep DEF TitleRight
  <2>3. CASE Store
    <3>1. UNCHANGED pageVars /\ title' = IF meta.og # Blank THEN meta.og ELSE meta.html
      BY <2>3 DEF Store
    <3>2. OgTitles \in SUBSET Nat /\ TitleTexts \in SUBSET Nat
      BY DEF Found, OgTitles, TitleTexts
    <3>3. meta.og = First(OgTitles) /\ meta.html = First(TitleTexts)
      BY <3>2, FirstFound DEF Found
    <3>4. meta.og # Blank <=> OgTitles # {}
      BY DEF Found, SaysFirst, OgTitles
    <3>5. title' = IF OgTitles # {} THEN First(OgTitles) ELSE First(TitleTexts)
      BY <3>1, <3>3, <3>4
    <3>6. TitleRight'
      BY <3>1, <3>5 DEF TitleRight, pageVars, First, OgTitles, TitleTexts, InTitle
    <3> QED BY <2>1, <3>1, <3>6
  <2>4. CASE ValidateURL \/ Check \/ Expires \/ Dial \/ Answer \/ ReadEnds
    <3>1. UNCHANGED pageVars /\ step' # "stored"
      BY <2>4 DEF ValidateURL, Check, Expires, Dial, Answer, ReadEnds, GiveUp, Done
    <3> QED BY <2>1, <3>1 DEF TitleRight
  <2>5. CASE UNCHANGED allVars
    BY <2>1, <2>5 DEF allVars, intakeVars, pageVars, TitleRight, First, OgTitles, TitleTexts, InTitle
  <2> QED BY <2>2, <2>3, <2>4, <2>5 DEF IntakeNext
<1>3. I => TitleRight OBVIOUS
<1> QED BY <1>1, <1>2, <1>3, PTL DEF IntakeSpec

(* The variables of Create keep their types: in particular a preview       *)
(* connects to what is an address, and follows at most MaxHops redirects.  *)
THEOREM TypesCorrect == IntakeSpec => [](TypeOK /\ IntakeTypeOK)
<1> USE DEF IntakeTypeOK
<1>1. IntakeInit => Init /\ IntakeTypeOK
  BY HostAssumption, TextAssumption, LimitAssumption DEF IntakeInit, NoMeta
<1>2. IntakeTypeOK /\ [IntakeNext]_allVars => IntakeTypeOK'
  <2> SUFFICES ASSUME IntakeTypeOK, [IntakeNext]_allVars PROVE IntakeTypeOK' OBVIOUS
  <2> USE LimitAssumption DEF webVars, pageVars
  <2>1. CASE ValidateURL BY <2>1 DEF ValidateURL
  <2>2. CASE Check BY <2>2 DEF Check
  <2>3. CASE Expires BY <2>3 DEF Expires
  <2>4. CASE Dial
    <3>1. ASSUME NEW ips \in Answers(host) PROVE ips[1] \in Address BY <3>1 DEF Answers, Host
    <3> QED BY <2>4, <3>1 DEF Dial, GiveUp, Done
  <2>5. CASE Answer BY <2>5 DEF Answer, GiveUp, Done
  <2>6. CASE ReadToken
    <3>1. PICK t \in Tokens : page' = Append(page, t) /\ meta' = Apply(meta, t)
                              /\ step' \in {"store", "read"}
      BY <2>6 DEF ReadToken
    <3>2. page' \in Seq(Tokens) /\ Len(page') <= MaxTokens
      BY <2>6, <3>1 DEF ReadToken
    <3>3. t.content \in Text \cup {Blank} BY DEF Tokens
    <3>4. meta' \in [inTitle : BOOLEAN, html : Text \cup {Blank}, og : Text \cup {Blank}]
      BY <3>1, <3>3 DEF Apply
    <3> QED BY <2>6, <3>1, <3>2, <3>4 DEF ReadToken
  <2>7. CASE ReadEnds BY <2>7 DEF ReadEnds
  <2>8. CASE Store BY <2>8 DEF Store
  <2>9. CASE UNCHANGED allVars BY <2>9 DEF allVars, intakeVars
  <2> QED BY <2>1, <2>2, <2>3, <2>4, <2>5, <2>6, <2>7, <2>8, <2>9 DEF IntakeNext
<1>3. IntakeSpec => Spec BY <1>1, LifetimeStep, PTL DEF IntakeSpec, Spec
<1>4. IntakeSpec => []IntakeTypeOK BY <1>1, <1>2, PTL DEF IntakeSpec
<1> QED BY <1>3, <1>4, TypeCorrect, PTL
=============================================================================
