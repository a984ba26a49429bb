\* Two calls at a time, over both transports, for one e-mail.
SPECIFICATION FairSpec
CONSTANTS
    c1 = c1  c2 = c2  e1 = e1
    short = short  fair = fair  long = long
    Slots = {c1, c2}
    Emails = {e1}
    Passwords = {short, fair, long}
    ShortPasswords = {short}
    LongPasswords = {long}
    TokenTTL = 1
    MaxTime = 1
    MaxPanics = 1
    NoUser = NoUser
    NoToken = NoToken
INVARIANTS CreatedOnce TokenHolds GaugeExact CountersBalance
PROPERTIES AccountKept CallsEnd
