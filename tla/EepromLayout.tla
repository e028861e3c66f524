---------------------------- MODULE EepromLayout ----------------------------
(***************************************************************************)
(* The 512 bytes behind the settings.  Every setting has a region; writing *)
(* it clears the region and copies the text, however long: nothing stops a *)
(* text at the end of its region.  A region is read up to its first zero.  *)
(* The user's uid has no region of its own, it lies over the thresholds.   *)
(*                                                                         *)
(* A text is a name with a length; a byte is zero, or one character of a   *)
(* text, <<text, position>>.                                               *)
(***************************************************************************)
EXTENDS Settings, FiniteSets, SequencesExt

CONSTANTS
    Start, Size,     \* of each region
    UidSize,         \* what is cleared for a uid
    ClearEnd,        \* /setting with credentials clears the bytes below
    EepromSize,
    Texts, Length,
    NoText,          \* an argument that is missing or empty
    LevelText, EmailText, IntervalText, SwitchText, \* values and their texts
    HomeSsid, HomePass,
    Provisionings,   \* the requests to /setting, as texts
    CloudTexts,      \* settings as the cloud gives them, as texts
    MaxCuts          \* bound: power failures between two commits of a wake

Fields == {"ssid", "pass", "fbhost", "fbauth", "mode", "name", "interval"} \cup NotifyField

(* The source's map of the EEPROM. *)
SourceStart ==
    [f \in Fields |->
        CASE f = "ssid" -> 0     [] f = "pass" -> 32         [] f = "fbhost" -> 96
          [] f = "fbauth" -> 160 [] f = "mode" -> 224        [] f = "name" -> 244
          [] f = "interval" -> 308
          [] f = "humidLower" -> 318 [] f = "humidHigher" -> 328
          [] f = "tempLower" -> 338  [] f = "tempHigher" -> 348
          [] f = "email" -> 358      [] f = "isSend" -> 422]

(* A smaller EEPROM keeps the order of the regions, leaves no gap between   *)
(* them, and clears up to somewhere inside the address.                     *)
ASSUME LayoutAssumption ==
    /\ Start \in [Fields -> Nat] /\ Size \in [Fields -> Nat \ {0}]
    /\ \A f, g \in Fields :
         /\ Start[f] < Start[g] <=> SourceStart[f] < SourceStart[g]
         /\ Start[f] < Start[g] => Start[f] + Size[f] <= Start[g]
    /\ \A f \in Fields \ {"isSend"} : \E g \in Fields : Start[g] = Start[f] + Size[f]
    /\ ClearEnd = Start["humidLower"] + UidSize
    /\ Start["email"] < ClearEnd /\ ClearEnd < Start["isSend"]
    /\ EepromSize \in Nat /\ Start["isSend"] + Size["isSend"] <= EepromSize
    /\ UidSize \in Nat /\ MaxCuts \in Nat
    /\ Length \in [Texts -> Nat \ {0}] /\ NoText \notin Texts

VARIABLES
    mem,   \* the bytes, with what an observer remembers of them:
           \*   given:   the text written last to each field
           \*   spoiled: fields hit since then by somebody else's text
           \*   old:     bytes left by an owner before the last one
           \*   fits:    every text so far fitted its region
    texts, \* the settings in RAM, as texts
    step,  \* the next commit of writeLocalNotificationInfo; 0 before the settings are loaded
    cuts   \* power failures so far

vars == <<mem, texts, step, cuts>>

-----------------------------------------------------------------------------
(* Bytes *)

Nul == <<>>
Spelled(t) == [i \in 1 .. Length[t] |-> <<t, i>>]

Span(at, s) == at .. at + Len(s) - 1
Region(f) == Start[f] .. Start[f] + Size[f] - 1
UidRegion == Start["humidLower"] .. Start["humidLower"] + UidSize - 1

Cleared(cells, where) == [c \in DOMAIN cells |-> IF c \in where THEN Nul ELSE cells[c]]

(* EEPROM.write ignores an address beyond the end. *)
Copied(cells, at, s) ==
    [c \in DOMAIN cells |-> IF c \in Span(at, s) THEN s[c - at + 1] ELSE cells[c]]

UpToNul(s) ==
    LET zeros == {i \in DOMAIN s : s[i] = Nul}
    IN  IF zeros = {} THEN s ELSE SubSeq(s, 1, Min(zeros) - 1)
Raw(cells, f) == [i \in 1 .. Size[f] |-> cells[Start[f] + i - 1]]
Reads(cells, f) == UpToNul(Raw(cells, f))

(* What a region makes of a text that was written to it. *)
AsRead(f, s) == UpToNul(SubSeq(s, 1, IF Len(s) < Size[f] THEN Len(s) ELSE Size[f]))

-----------------------------------------------------------------------------
(* Writing *)

Hit(f, s) == {g \in Fields \ {f} : Region(g) \cap Span(Start[f], s) # {}}

(* A text copied without clearing first: credentials, after the loop that   *)
(* cleared everything, and updateWorkingMode.                               *)
CopyField(m, f, s) ==
    [cells   |-> Copied(m.cells, Start[f], s),
     given   |-> [m.given EXCEPT ![f] = s],
     spoiled |-> m.spoiled \cup Hit(f, s),
     old     |-> m.old \ Span(Start[f], s),
     fits    |-> m.fits /\ Len(s) <= Size[f]]

(* A defect: the text alone is written. *)
WriteFieldUncleared(m, f, s) == CopyField(m, f, s)

(* writeLocalNotificationConfig, writeLocalReadingIntervalConfig and most   *)
(* parts of /setting.                                                       *)
WriteField(m, f, s) ==
    CopyField([m EXCEPT !.cells = Cleared(@, Region(f)), !.spoiled = @ \ {f},
                        !.old = @ \ Region(f)], f, s)

WriteArgument(m, f, t) == IF t = NoText THEN m ELSE WriteField(m, f, Spelled(t))

(* The user's uid, over the thresholds and into the address. *)
WriteUid(m, t) ==
    IF t = NoText THEN m
    ELSE LET s == Spelled(t)
         IN  [cells   |-> Copied(Cleared(m.cells, UidRegion), Start["humidLower"], s),
              given   |-> m.given,
              spoiled |-> m.spoiled \cup
                          {f \in Fields : Region(f) \cap (UidRegion \cup Span(Start["humidLower"], s)) # {}},
              old     |-> m.old \ (UidRegion \cup Span(Start["humidLower"], s)),
              fits    |-> m.fits /\ Start["humidLower"] + Len(s) <= Start["tempHigher"]]

(* A defect, of the version before the uid: the thresholds are kept. *)
ClearForOwnerShort(m) ==
    [m EXCEPT !.cells = Cleared(@, 0 .. Start["humidLower"] - 1),
              !.given = [f \in Fields |-> IF f \in NotifyField THEN @[f] ELSE <<>>],
              !.spoiled = @ \cap NotifyField,
              !.old = Start["humidLower"] .. EepromSize - 1]

(* Credentials make a new owner.  The end of the address and isSendNotify   *)
(* lie beyond what is cleared.                                              *)
ClearForOwner(m) ==
    [m EXCEPT !.cells = Cleared(@, 0 .. ClearEnd - 1),
              !.given = [f \in Fields |-> IF f = "isSend" THEN @[f] ELSE <<>>],
              !.spoiled = @ \cap {"isSend"},
              !.old = ClearEnd .. EepromSize - 1]

BringsCredentials(q) == q.ssid # NoText /\ q.pass # NoText
BringsHost(q) == q.fbhost # NoText /\ q.fbauth # NoText

(* The handler of /setting, in its order. *)
AfterRequest(m, q) ==
    LET owner == IF BringsCredentials(q)
                 THEN CopyField(CopyField(ClearForOwner(m), "ssid", Spelled(q.ssid)),
                                "pass", Spelled(q.pass))
                 ELSE m
        host  == IF BringsHost(q)
                 THEN WriteArgument(WriteArgument(owner, "fbhost", q.fbhost), "fbauth", q.fbauth)
                 ELSE owner
        named == WriteArgument(WriteArgument(host, "mode", q.mode), "name", q.name)
    IN  WriteUid(WriteArgument(named, "interval", q.interval), q.uid)

-----------------------------------------------------------------------------
(* Reading, as loadInternalConfig does *)

Erased == <<"0xFF", 1>>
Holds(cells, f, t) == Reads(cells, f) = Spelled(t)

(* The value a field stands for.  Erased flash counts as empty: nothing     *)
(* but isSendNotify is read before credentials have cleared it.  Text that  *)
(* is no number reads as zero.                                              *)
StoredNumber(cells, f) ==
    LET s == Reads(cells, f)
        like == {v \in Levels : s # <<>> /\ s = AsRead(f, Spelled(LevelText[v]))}
    IN  IF s = <<>> \/ Head(s) = Erased THEN Absent
        ELSE IF like = {} THEN 0 ELSE CHOOSE v \in like : TRUE

StoredEmail(cells) ==
    LET like == {v \in Emails \ {NoEmail} : Holds(cells, "email", EmailText[v])}
    IN  IF like = {} THEN Absent ELSE CHOOSE v \in like : TRUE

StoredSwitch(cells) ==
    LET s == Reads(cells, "isSend")
    IN  IF s = <<>> THEN Absent ELSE IF s = Spelled(SwitchText[Off]) THEN Off ELSE On

StoredNotify(cells) ==
    [f \in NotifyField |->
        IF f = "email" THEN StoredEmail(cells)
        ELSE IF f = "isSend" THEN StoredSwitch(cells) ELSE StoredNumber(cells, f)]

StoredInterval(cells) ==
    LET like == {v \in Intervals : Holds(cells, "interval", IntervalText[v])}
    IN  IF like = {} THEN Absent ELSE CHOOSE v \in like : TRUE

HomeCredentials(cells) == Holds(cells, "ssid", HomeSsid) /\ Holds(cells, "pass", HomePass)

(* The record of Settings these bytes carry. *)
Record(cells) ==
    [creds |-> IF HomeCredentials(cells) THEN "home"
               ELSE IF Reads(cells, "ssid") = <<>> \/ Erased = cells[Start["ssid"]]
                    THEN Absent ELSE "wrong",
     mode |-> IF Holds(cells, "mode", "setup") THEN "setup"
              ELSE IF Holds(cells, "mode", "burst") THEN "burst" ELSE Absent,
     interval |-> StoredInterval(cells), notify |-> StoredNotify(cells)]

UidTexts == {q.uid : q \in Provisionings} \ {NoText}

(* What a region with pieces of several texts spells is not tracked: it is  *)
(* any number, or zero when it starts with a piece of a uid.                *)
LoadedNumbers(cells, f) ==
    LET s == Reads(cells, f)
    IN  IF s # <<>> /\ StoredNumber(cells, f) = 0
        THEN IF s[1][1] \in UidTexts \/ s = AsRead(f, Spelled(LevelText[0])) THEN {0} ELSE Levels
        ELSE {LoadNotify(StoredNotify(cells))[f]}

(* loadInternalConfig keeps interval and address as texts, zeros included. *)
LoadedText(cells, f, default) ==
    IF Reads(cells, f) = <<>> THEN Spelled(default) ELSE Raw(cells, f)

KeptFields == NotifyField \cup {"interval"}

(* Everything that is written has a text, "burst" is as long as "setup", and *)
(* the cloud gives a text or nothing for every setting.                     *)
ASSUME TextsAssumption ==
    /\ {"setup", "burst"} \subseteq Texts /\ Length["setup"] = Length["burst"]
    /\ LevelText \in [Levels -> Texts] /\ SwitchText \in [{On, Off} -> Texts]
    /\ EmailText[DefaultEmail] \in Texts /\ IntervalText[DefaultInterval] \in Texts
    /\ \A q \in Provisionings :
         {q.ssid, q.pass, q.fbhost, q.fbauth, q.mode, q.name, q.interval, q.uid}
             \subseteq Texts \cup {NoText}
    /\ CloudTexts \subseteq [KeptFields -> {<<>>} \cup {Spelled(t) : t \in Texts}]

(* The request of Settings that these texts are. *)
AsRequest(q) ==
    [creds    |-> IF ~BringsCredentials(q) THEN Absent
                  ELSE IF q.ssid = HomeSsid /\ q.pass = HomePass THEN "home" ELSE "wrong",
     mode     |-> IF q.mode = NoText THEN Absent ELSE "setup",
     interval |-> IF q.interval = NoText THEN Absent
                  ELSE CHOOSE v \in Intervals : IntervalText[v] = q.interval,
     uid      |-> q.uid # NoText]

(* Different intervals have different texts, and every interval and address *)
(* has one; no text is erased flash; a request asks for "setup" and for an  *)
(* interval, if at all, and its uid reaches the third threshold and is no   *)
(* number; what the cloud gives for a threshold or the switch is not empty, *)
(* and for the interval is one, or too long.                                *)
ASSUME ValuesAssumption ==
    /\ Absent \notin {"home", "wrong", "setup", "burst"} /\ Absent \notin Intervals
    /\ {HomeSsid, HomePass} \subseteq Texts /\ "0xFF" \notin Texts
    /\ IntervalText \in [Intervals -> Texts] /\ EmailText \in [Emails \ {NoEmail} -> Texts]
    /\ \A v, w \in Intervals : IntervalText[v] = IntervalText[w] => v = w
    /\ \A q \in Provisionings :
         /\ AsRequest(q) \in Requests
         /\ q.mode \in {NoText, "setup"}
         /\ q.interval = NoText \/ \E v \in Intervals : IntervalText[v] = q.interval
    /\ \A t \in UidTexts :
         /\ Start["tempLower"] < Start["humidLower"] + Length[t]
         /\ \A v \in Levels : LevelText[v] # t
    /\ \A t \in CloudTexts :
         /\ \A f \in NumericField \cup {"isSend"} : t[f] # <<>>
         /\ \/ Len(t["interval"]) > Size["interval"]
            \/ \E v \in Intervals : t["interval"] = Spelled(IntervalText[v])

LoadedTexts(cells) ==
    LET numbers == [f \in NumericField |-> LoadedNumbers(cells, f)]
        switch  == LoadNotify(StoredNotify(cells))["isSend"]
    IN  {[f \in KeptFields |->
            IF f \in NumericField THEN Spelled(LevelText[level[f]])
            ELSE IF f = "isSend" THEN Spelled(SwitchText[switch])
            ELSE LoadedText(cells, f, IF f = "email" THEN EmailText[DefaultEmail]
                                      ELSE IntervalText[DefaultInterval])] :
            level \in {v \in [NumericField -> Levels] : \A f \in NumericField : v[f] \in numbers[f]}}

-----------------------------------------------------------------------------
(* The writers, and the wakes between them *)

NothingLoaded == <<>>

(* A defect: the commits go downwards through the memory. *)
KeepOrderDown == Reverse(Append(WriteOrder, "interval"))

KeepOrder == Append(WriteOrder, "interval")

Blank(cell) ==
    [cells |-> [c \in 0 .. EepromSize - 1 |-> cell], given |-> [f \in Fields |-> <<>>],
     spoiled |-> IF cell = Nul THEN {} ELSE Fields, old |-> {}, fits |-> TRUE]

Init ==
    /\ mem \in {Blank(Nul), Blank(Erased)}
    /\ step = 0 /\ texts = NothingLoaded /\ cuts = 0

(* A defect: the globals outlive the reset. *)
ResetKeepsGlobals == step' = 0 /\ UNCHANGED texts

(* A reset, at any moment: a commit is atomic. *)
Reset == step' = 0 /\ texts' = NothingLoaded

(* The end of the sleep, or of the power. *)
PowerCycle ==
    /\ Reset /\ UNCHANGED mem
    /\ IF step \in 2 .. Len(KeepOrder)
       THEN cuts < MaxCuts /\ cuts' = cuts + 1 ELSE UNCHANGED cuts

(* loadInternalConfig. *)
Load ==
    /\ step = 0 /\ step' = 1
    /\ texts' \in LoadedTexts(mem.cells)
    /\ UNCHANGED <<mem, cuts>>

(* A request at the hotspot: a reset or a reload ends it. *)
Provision(q) ==
    /\ step = 1 /\ Reset
    /\ mem' = AfterRequest(mem, q)
    /\ UNCHANGED cuts

(* updateWorkingMode(BURST_MODE) over "setup", and the reset after it. *)
LeaveSetup ==
    /\ step = 1 /\ HomeCredentials(mem.cells) /\ Holds(mem.cells, "mode", "setup")
    /\ mem' = CopyField(mem, "mode", Spelled("burst"))
    /\ Reset /\ UNCHANGED cuts

(* The settings of the cloud replace those that were loaded. *)
Refresh(t) ==
    /\ step = 1 /\ HomeCredentials(mem.cells)
    /\ texts' = t
    /\ UNCHANGED <<mem, step, cuts>>

(* One commit of writeLocalNotificationInfo. *)
Keep ==
    /\ step \in 1 .. Len(KeepOrder) /\ HomeCredentials(mem.cells)
    /\ LET f == KeepOrder[step] IN mem' = WriteField(mem, f, texts[f])
    /\ step' = step + 1
    /\ UNCHANGED <<texts, cuts>>

Next ==
    \/ PowerCycle \/ Load \/ LeaveSetup \/ Keep
    \/ \E q \in Provisionings : Provision(q)
    \/ \E t \in CloudTexts : Refresh(t)

Spec == Init /\ [][Next]_vars

-----------------------------------------------------------------------------
(* Properties *)

Cells == {Nul, Erased} \cup {<<t, i>> : t \in Texts, i \in 1 .. EepromSize}

TypeOK ==
    /\ DOMAIN mem.cells = 0 .. EepromSize - 1
    /\ \A c \in DOMAIN mem.cells : mem.cells[c] \in Cells
    /\ DOMAIN mem.given = Fields /\ mem.spoiled \subseteq Fields
    /\ mem.old \subseteq DOMAIN mem.cells /\ mem.fits \in BOOLEAN
    /\ step \in 0 .. Len(KeepOrder) + 1
    /\ DOMAIN texts = IF step = 0 THEN {} ELSE KeptFields
    /\ cuts \in 0 .. MaxCuts

(* A setting that no other text has run into since it was written reads     *)
(* back as that text, as far as its region reaches: the regions do not      *)
(* overlap, each writer clears enough, and "burst" covers "setup".          *)
UnspoiledReadsBack ==
    \A f \in Fields \ mem.spoiled : Reads(mem.cells, f) = AsRead(f, mem.given[f])

(* The seven commits go upwards through the memory, so that each repairs    *)
(* what the one before it ran into; but the interval comes last and lies    *)
(* below the thresholds, and a long one spoils those it runs into.          *)
CommitsHeal ==
    step > Len(KeepOrder) =>
        \A f \in KeptFields :
            f = "interval" \/ Region(f) \cap Span(Start["interval"], texts["interval"]) = {}
                => Reads(mem.cells, f) = AsRead(f, texts[f])

(* Nothing a new owner's device can read was left by the one before, but    *)
(* isSendNotify, and the end of an address into which another text runs     *)
(* that reaches the last byte cleared: a uid of full length does.           *)
Visible(f) == Start[f] .. Start[f] + Len(Reads(mem.cells, f)) - 1
Adjoined == "email" \in mem.spoiled /\ mem.cells[ClearEnd - 1] # Nul
NothingOfPreviousOwner ==
    \A f \in Fields \ {"isSend"} :
        (f = "email" /\ Adjoined) \/ Visible(f) \cap mem.old = {}

(* As long as every text fits, the bytes do what SettingsStore does to its  *)
(* record, request by request and commit by commit.                         *)
Bytes == INSTANCE SettingsStore WITH flash <- Record(mem.cells)
BytesFollowRecord ==
    [][mem'.fits => UNCHANGED Record(mem.cells) \/ Bytes!Next]_mem
=============================================================================
