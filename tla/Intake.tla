------------------------------- MODULE Intake -------------------------------
(***************************************************************************)
(* What Create does with a URL before anything is stored, in the order of  *)
(* src/internal/shortener/service_impl.go: ValidateURL, the Safe Browsing  *)
(* check, the lifetime (ExpiresIn), then the page preview, which connects  *)
(* to wherever the URL leads and reads a title.                            *)
(*                                                                         *)
(* A host is a name or an address. Names are looked up again on every      *)
(* connection and the answer may be another one each time; the check of    *)
(* ValidateURL sees only what is written in the URL.                       *)
(*                                                                         *)
(* A page is a sequence of the tokens of the HTML tokenizer that matter    *)
(* here. It ends early when a limit of size or time cuts it off.           *)
(***************************************************************************)
EXTENDS ExpiresIn, Sequences, FiniteSetsExt

CONSTANTS
  Name,        \* host names
  Address,     \* IP addresses, as hosts and as answers of the resolver
  Private,     \* those in privateNets, and "localhost" if it is a name here
  NoAddress,
  MaxHops,     \* redirects a http.Client follows: 10
  Text,        \* non-empty contents of titles and meta tags
  Blank,       \* contents that TrimSpace empties
  MaxTokens    \* bound: tokens of a page

ASSUME HostAssumption ==
  /\ Name \cap Address = {} /\ Private \subseteq Name \cup Address
  /\ NoAddress \notin Name \cup Address
ASSUME TextAssumption == Blank \notin Text
ASSUME LimitAssumption == {MaxHops, MaxTokens} \subseteq Nat

VARIABLES
  step,      \* where Create is
  url,       \* the host of the URL
  verdict,   \* what Safe Browsing said
  host,      \* the host the preview is at, after redirects
  hops,      \* redirects followed
  conn,      \* the address the preview has connected to for this hop
  page,      \* the tokens read so far
  meta,      \* what parseHTMLMetadata has found
  title      \* what Create will store

webVars == <<host, hops, conn>>
pageVars == <<page, meta>>
intakeVars == <<step, url, verdict, webVars, pageVars, title>>
allVars == <<vars, intakeVars>>

Host == Name \cup Address

(* The tokens: a meta tag with a title, <title>, its text, </title>,       *)
(* <body>, and anything else.                                              *)
Tokens ==
  [type : {"og", "text"}, content : Text \cup {Blank}] \cup
  [type : {"title", "/title", "body", "other"}, content : {Blank}]

NoMeta == [inTitle |-> FALSE, html |-> Blank, og |-> Blank]

IntakeTypeOK ==
  /\ step \in {"url", "check", "expires", "dial", "ask", "read", "store", "stored", "refused"}
  /\ url \in Host /\ host \in Host
  /\ verdict \in {"none", "safe", "flagged", "failed"}
  /\ hops \in 0..MaxHops
  /\ conn \in Address \cup {NoAddress}
  /\ page \in Seq(Tokens) /\ Len(page) <= MaxTokens
  /\ meta \in [inTitle : BOOLEAN, html : Text \cup {Blank}, og : Text \cup {Blank}]
  /\ title \in Text \cup {Blank}

IntakeInit ==
  /\ Init
  /\ step = "url"
  /\ url \in Host /\ host = url
  /\ verdict = "none"
  /\ hops = 0
  /\ conn = NoAddress
  /\ page = <<>>
  /\ meta = NoMeta
  /\ title = Blank

----------------------------------------------------------------------------
(* ValidateURL: a private address or "localhost" in the URL is refused.    *)
ValidateURL ==
  /\ step = "url"
  /\ step' = IF url \in Private THEN "refused" ELSE "check"
  /\ UNCHANGED <<vars, url, verdict, webVars, pageVars, title>>

(* Mutant: a checker that cannot be asked refuses.                         *)
Passes_FailClosed(v) == v = "safe"

(* checker.Check: only a match refuses. Transport errors, a status other   *)
(* than 200 and answers that do not decode let the URL pass.               *)
Passes(v) == v # "flagged"

Check ==
  /\ step = "check"
  /\ verdict' \in {"safe", "flagged", "failed"}
  /\ step' = IF Passes(verdict') THEN "expires" ELSE "refused"
  /\ UNCHANGED <<vars, url, webVars, pageVars, title>>

(* The lifetime, if one is asked for. The request that asks for none is    *)
(* here the one with 0h, which as a text would be refused.                 *)
Expires ==
  /\ step = "expires"
  /\ \/ /\ pc = "asked" /\ n = 0 /\ unit = "h"
        /\ step' = "dial"
        /\ UNCHANGED vars
     \/ /\ Validate
        /\ step' = IF pc' = "valid" THEN "expires" ELSE "refused"
     \/ /\ Parse
        /\ step' = "dial"
  /\ UNCHANGED <<url, verdict, webVars, pageVars, title>>

----------------------------------------------------------------------------
(* Answers of the resolver. An address is its own answer.                  *)
Answers(h) ==
  IF h \in Address THEN {<<h>>} ELSE {<<a>> : a \in Address} \cup (Address \X Address)

AnyPrivate(ips) == \E i \in DOMAIN ips : ips[i] \in Private

(* The http.Client is done; what it kept for the redirects goes.           *)
Done(next) ==
  /\ step' = next
  /\ host' = url /\ hops' = 0 /\ conn' = NoAddress

(* Fetch gives up: no metadata, no error.                                  *)
GiveUp == Done("store") /\ UNCHANGED pageVars

(* Mutant: the name is dialled, and so looked up once more.                *)
Dial_ByName ==
  /\ step = "dial"
  /\ \/ \E ips, again \in Answers(host) :
          /\ ~AnyPrivate(ips)
          /\ conn' = again[1]
          /\ step' = "ask"
          /\ UNCHANGED <<host, hops, pageVars>>
     \/ GiveUp
  /\ UNCHANGED <<vars, url, verdict, title>>

(* safeDialer: look the host up, refuse it for any private address, and    *)
(* connect to the address that was checked.                                *)
Dial ==
  /\ step = "dial"
  /\ \/ \E ips \in Answers(host) :
          /\ ~AnyPrivate(ips)
          /\ conn' = ips[1]
          /\ step' = "ask"
          /\ UNCHANGED <<host, hops, pageVars>>
     \/ GiveUp
  /\ UNCHANGED <<vars, url, verdict, title>>

(* Mutant: redirects are followed for ever.                                *)
Answer_Endless ==
  /\ step = "ask"
  /\ \/ /\ host' \in Host
        /\ hops' = hops + 1
        /\ step' = "dial"
        /\ conn' = NoAddress
        /\ UNCHANGED pageVars
     \/ GiveUp
  /\ UNCHANGED <<vars, url, verdict, title>>

(* The site answers: a redirect to any host, a page, or nothing of use.    *)
(* The http.Client follows a redirect through the same dialer.             *)
Answer ==
  /\ step = "ask"
  /\ \/ /\ hops < MaxHops
        /\ host' \in Host
        /\ hops' = hops + 1
        /\ step' = "dial"
        /\ conn' = NoAddress
        /\ UNCHANGED pageVars
     \/ Done("read") /\ UNCHANGED pageVars
     \/ GiveUp
  /\ UNCHANGED <<vars, url, verdict, title>>

(* Mutant: the last og:title counts.                                       *)
Apply_LastWins(m, t) ==
  CASE t.type = "og"     -> [m EXCEPT !.og = t.content]
    [] t.type = "title"  -> [m EXCEPT !.inTitle = TRUE]
    [] t.type = "/title" -> [m EXCEPT !.inTitle = FALSE]
    [] t.type = "text" /\ m.inTitle /\ m.html = Blank -> [m EXCEPT !.html = t.content]
    [] OTHER -> m

(* A turn of the loop of parseHTMLMetadata.                                *)
Apply(m, t) ==
  CASE t.type = "og" /\ m.og = Blank -> [m EXCEPT !.og = t.content]
    [] t.type = "title"  -> [m EXCEPT !.inTitle = TRUE]
    [] t.type = "/title" -> [m EXCEPT !.inTitle = FALSE]
    [] t.type = "text" /\ m.inTitle /\ m.html = Blank -> [m EXCEPT !.html = t.content]
    [] OTHER -> m

ReadToken ==
  /\ step = "read"
  /\ Len(page) < MaxTokens
  /\ \E t \in Tokens :
       /\ page' = Append(page, t)
       /\ meta' = Apply(meta, t)
       /\ step' = IF t.type = "body" THEN "store" ELSE "read"
  /\ UNCHANGED <<vars, url, verdict, webVars, title>>

(* The page ends, or the limit of size or time is reached.                 *)
ReadEnds ==
  /\ step = "read"
  /\ step' = "store"
  /\ UNCHANGED <<vars, url, verdict, webVars, pageVars, title>>

(* Create goes on to store.CreateURL with what Fetch returned.             *)
Store ==
  /\ step = "store"
  /\ title' = IF meta.og # Blank THEN meta.og ELSE meta.html
  /\ step' = "stored"
  /\ UNCHANGED <<vars, url, verdict, webVars, pageVars>>

IntakeNext ==
  \/ ValidateURL \/ Check \/ Expires
  \/ Dial \/ Answer \/ ReadToken \/ ReadEnds
  \/ Store

IntakeSpec == IntakeInit /\ [][IntakeNext]_allVars /\ WF_allVars(IntakeNext)

----------------------------------------------------------------------------
(* fetcher.go "rejects connections to private/loopback addresses": through *)
(* redirects and answers of the resolver that change, the preview connects *)
(* to public addresses only.                                               *)
PublicOnly == conn \notin Private

(* fetcher.go "All errors are swallowed", checker.go "Fails open": a URL   *)
(* whose parts are valid and that nobody flagged is stored in the end,     *)
(* whatever checker, resolver and site do.                                 *)
OutsideNeverRefuses ==
  (step = "check" /\ Asked \in 1..MaxHours) ~> (step = "stored" \/ verdict = "flagged")

(* What a reader of the page would call its title: the first og:title that *)
(* says anything, else the first text within a title element; of the part  *)
(* that was read, up to <body>.                                            *)
First(S) == IF S = {} THEN Blank ELSE page[Min(S)].content

OgTitles == {i \in DOMAIN page : page[i].type = "og" /\ page[i].content # Blank}

InTitle(i) ==
  \E m \in 1..i : page[m].type = "title" /\ \A j \in m..i : page[j].type # "/title"

TitleTexts ==
  {i \in DOMAIN page : page[i].type = "text" /\ page[i].content # Blank /\ InTitle(i)}

TitleRight ==
  step = "stored" =>
    title = IF OgTitles # {} THEN First(OgTitles) ELSE First(TitleTexts)
=============================================================================
