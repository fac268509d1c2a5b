SPECIFICATION Spec
CONSTANTS
    u1 = u1
    u2 = u2
    u3 = u3
    Nothing = Nothing
    Malformed = Malformed
    public4 = public4
    private4 = private4
    toPublic6 = toPublic6
    toPrivate6 = toPrivate6
    relay4 = relay4
    Urls = {u1, u2, u3}
    Sound = {u1, u2}
    PlainHttp = {u2}
    AllowHttp = FALSE
    Addrs = {public4, private4, toPublic6, toPrivate6, relay4}
    Global = {public4, toPublic6, toPrivate6, relay4}
    NeverPublic = {relay4}
    Embeds <- MCEmbeds
    Timeout = 2
    DnsLimit = 1
    Waits = 2
    MaxRedirects = 2
    MaxBytes = 2
    RawSlack = 1
    Lengths = {1, 3}
    MaxChunk = 2
CHECK_DEADLOCK FALSE
INVARIANTS OnlyPublic PermanentIfAllAre ContentOnlyIfPreserved NothingCutSilently DeadlineHolds
PROPERTIES StepsRunOut Terminates
