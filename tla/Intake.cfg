\* A name, a public and a private address, two redirects, pages of four
\* tokens; lifetimes as 6-bit integers, days of four hours, five at most.
CONSTANTS
  Half = 32
  DayHours = 4
  MaxHours = 5
  Hour = 3
  name = name
  pub = pub
  priv = priv
  Name = {name}
  Address = {pub, priv}
  Private = {priv}
  NoAddress = NoAddress
  MaxHops = 2
  t1 = t1
  t2 = t2
  Text = {t1, t2}
  Blank = Blank
  MaxTokens = 4
SPECIFICATION IntakeSpec
INVARIANTS TypeOK LifetimeBounded AskedIsGranted IntakeTypeOK PublicOnly TitleRight
PROPERTY OutsideNeverRefuses
\* A URL is stored or refused and that is all.
CHECK_DEADLOCK FALSE
