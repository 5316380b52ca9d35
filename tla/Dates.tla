------------------------------- MODULE Dates -------------------------------
(***************************************************************************)
(* The dates of a voting on their way: picked on a clock in the form of an *)
(* admin, taken by the API for Italian time and made UTC, kept by the      *)
(* ledger as local dates, read back, made Italian again, and shown by a    *)
(* browser on its own clock.                                               *)
(*                                                                         *)
(* An instant is a number of hours. Rome is ahead of UTC by two of them    *)
(* from Spring to Autumn and by one otherwise, so that one reading of its  *)
(* clock does not occur and one occurs twice; the months between the two   *)
(* are cut. Peers and chaincode run in containers, on UTC. A fraction of a *)
(* second is there or not, and orders nothing.                             *)
(***************************************************************************)
EXTENDS Integers, FiniteSets, FiniteSetsExt

CONSTANTS
    Goal,           \* the votings, told apart by their goals
    Spring, Autumn, \* when Rome changes to summer time, and back
    Zones,          \* the zones of the browsers: "Rome", and "elsewhere", on UTC
    Fractions,      \* whether a client of the API sends fractions of a second
    None            \* no dates, no page

CONSTANTS           \* bounds of the model
    Clock,          \* the readings of a clock that are picked
    MaxNow          \* the last instant

DatesAssumption ==
    /\ Spring \in Nat /\ Autumn \in Nat /\ Spring + 1 < Autumn
    /\ "Rome" \in Zones /\ Zones \subseteq {"Rome", "elsewhere"}
    /\ Fractions \subseteq BOOLEAN /\ FALSE \in Fractions
    /\ Clock \subseteq Nat /\ MaxNow \in Nat
    /\ None \notin [start : Int, end : Int, readable : BOOLEAN]

VARIABLES
    now,    \* the instant
    info,   \* info[g]: the dates of the ElectionInfo on the ledger, or None
    voting, \* the votings that have an Election
    asked,  \* history: asked[g]: the dates that were sent, or None
    byForm, \* history: the votings that were sent by the form
    inItaly, \* history: those of which the form was in a browser in Italy
    page    \* the list that a browser has read, or could not read, or None

vars == <<now, info, voting, asked, byForm, inItaly, page>>

----------------------------------------------------------------------------
(* Clocks *)

Summer(t) == Spring <= t /\ t < Autumn

\* Europe/Rome of the zone database.
RomeOffset(t) == IF Summer(t) THEN 2 ELSE 1

Offset(zone, t) == IF zone = "Rome" THEN RomeOffset(t) ELSE 0

\* What the clock of a zone reads.
Wall(zone, t) == t + Offset(zone, t)

\* The instants at which it reads w. What it skips in spring is taken by luxon,
\* as by Date, for an hour later.
Instants(zone, w) ==
    LET during == {t \in {w, w - 1, w - 2} : Wall(zone, t) = w}
    IN  IF during = {} THEN {w - 1} ELSE during

IsTime(w) == \E t \in {w - 1, w - 2} : Wall("Rome", t) = w

\* new Date(w), in a browser: of two instants the first.
DateOf(zone, w) == Min(Instants(zone, w))

\* Mutant of convertToUTC: the offset is that of today.
convertToUTCToday(d) == IF d.zone = "Rome" THEN {d.wall - RomeOffset(now)} ELSE {d.wall}

\* convertToUTC: a date without an offset is Italian; of two instants luxon
\* promises neither.
convertToUTC(d) == Instants(d.zone, d.wall)

\* convertToISO: Italian, with its offset.
convertToISO(t) == [wall |-> Wall("Rome", t), offset |-> RomeOffset(t)]

\* new Date of what the API answers.
Received(t) == convertToISO(t).wall - convertToISO(t).offset

----------------------------------------------------------------------------
(* Votings *)

\* A date as it is sent: a reading of the clock, an offset (that of UTC) or none.
Date == [wall : Clock, zone : {"Rome", "UTC"}]

\* Mutant of validValue: the end is compared with the start only.
validValueOfTheEnd(s, e, zone) == DateOf(zone, e) > DateOf(zone, s)

\* validValue of the end: after the start, and not elapsed.
validValue(s, e, zone) == DateOf(zone, e) > DateOf(zone, s) /\ DateOf(zone, e) > now

\* ElectionInfoConverter: serialize writes a fraction that is not zero, and the
\* format of deserialize has none.
Stored(a, b, fraction) == [start |-> a, end |-> b, readable |-> ~fraction]

\* createElectionInfo, of the API and of the chaincode: the zone is dropped, the
\* dates are checked, and answered as they are stored.
createElectionInfo(g, s, e, fraction) ==
    /\ info[g] = None
    /\ \E a \in convertToUTC(s), b \in convertToUTC(e) :
          /\ a < b
          /\ info' = [info EXCEPT ![g] = Stored(a, b, fraction)]
    /\ asked' = [asked EXCEPT ![g] = <<s, e>>]
    /\ UNCHANGED <<now, voting, page>>

\* The form of the admin, whose browser is in `zone': no offset, no fraction.
Submit(g, zone) ==
    \E s, e \in Clock :
       /\ validValue(s, e, zone)
       /\ createElectionInfo(g, [wall |-> s, zone |-> "Rome"], [wall |-> e, zone |-> "Rome"], FALSE)
       /\ byForm' = byForm \cup {g}
       /\ inItaly' = IF zone = "Rome" THEN inItaly \cup {g} ELSE inItaly

\* Another client of the API.
Post(g) ==
    \E s, e \in Date, fraction \in Fractions :
       /\ createElectionInfo(g, s, e, fraction)
       /\ UNCHANGED <<byForm, inItaly>>

\* createElection: with no results, as long as it is not over.
createElection(g) ==
    /\ info[g] # None /\ g \notin voting
    /\ info[g].readable /\ now <= info[g].end
    /\ voting' = voting \cup {g}
    /\ UNCHANGED <<now, info, asked, byForm, inItaly, page>>

\* deleteElectionInfo reads what it deletes. An ElectionInfo with other dates is
\* another voting.
deleteElectionInfo(g) ==
    /\ info[g] # None /\ info[g].readable
    /\ info' = [info EXCEPT ![g] = None] /\ asked' = [asked EXCEPT ![g] = None]
    /\ voting' = voting \ {g}
    /\ byForm' = byForm \ {g} /\ inItaly' = inItaly \ {g}
    /\ UNCHANGED <<now, page>>

\* formatDate and formatTime.
ShownDate(zone, t) == Wall(zone, Received(t))

\* A browser loads the votings, all of which have an Election: one that cannot be
\* read fails getAllElectionInfo.
Load(zone) ==
    LET there == {g \in Goal : info[g] # None} IN
    /\ \A g \in there : info[g].readable => g \in voting
    /\ page' = [zone |-> zone, read |-> \A g \in there : info[g].readable,
                byForm |-> there \subseteq byForm,
                list |-> [g \in there |->
                   [asked |-> asked[g], at |-> <<info[g].start, info[g].end>>,
                    shown |-> <<ShownDate(zone, info[g].start), ShownDate(zone, info[g].end)>>]]]
    /\ UNCHANGED <<now, info, voting, asked, byForm, inItaly>>

Tick ==
    /\ now < MaxNow
    /\ now' = now + 1
    /\ UNCHANGED <<info, voting, asked, byForm, inItaly, page>>

----------------------------------------------------------------------------

Init ==
    /\ now = 0
    /\ info = [g \in Goal |-> None] /\ asked = [g \in Goal |-> None]
    /\ voting = {} /\ byForm = {} /\ inItaly = {}
    /\ page = None

Next ==
    \/ \E g \in Goal, zone \in Zones : Submit(g, zone)
    \/ \E g \in Goal : Post(g) \/ createElection(g) \/ deleteElectionInfo(g)
    \/ \E zone \in Zones : Load(zone)
    \/ Tick

Spec == Init /\ [][Next]_vars

----------------------------------------------------------------------------
(* Properties *)

DatesTypeOK ==
    /\ now \in 0 .. MaxNow
    /\ info \in [Goal -> {None} \cup [start : Int, end : Int, readable : BOOLEAN]]
    /\ asked \in [Goal -> {None} \cup (Date \X Date)]
    /\ voting \cup byForm \subseteq {g \in Goal : info[g] # None}
    /\ inItaly \subseteq byForm
    /\ page = None \/ (page.zone \in Zones /\ DOMAIN page.list \subseteq Goal)

\* What the ledger keeps of a voting are instants of the dates that were sent, and
\* it reads those of the form.
KeptIsAsked ==
    \A g \in Goal : info[g] # None =>
        /\ asked[g] \in Date \X Date
        /\ info[g].start \in convertToUTC(asked[g][1])
        /\ info[g].end \in convertToUTC(asked[g][2])
        /\ info[g].start < info[g].end
        /\ g \in byForm => info[g].readable

\* A browser in Italy shows the reading of the clock that was picked, however
\* the clocks change in between (date.utils.ts:10-23, voting.ts:81-82).
ShownIsPicked ==
    page # None /\ page.zone = "Rome" =>
        \A g \in DOMAIN page.list, i \in {1, 2} :
            LET d == page.list[g].asked[i] IN
            d.zone = "Rome" /\ IsTime(d.wall) => page.list[g].shown[i] = d.wall

\* The browsers, that compare instants, and the chaincode, that compares local
\* dates, agree on what is open; but for the instant of the start, which
\* getStatus counts (utils.ts:80-88, ElectionInfoImpl.java:69-71).
StatusesAgree ==
    \A g \in voting :
        LET i == info[g] IN
        now # i.start =>
            ((Received(i.start) <= now /\ now < Received(i.end)) <=> (i.start < now /\ now < i.end))

\* A voting that the form accepts in Italy is not over. CreateElectionView.vue:107:
\* "End date must be a valid and non-elapsed date, which comes after the start
\* date". Elsewhere the form compares another instant than the one it sends.
AcceptedIsNotOver ==
    [][\A g \in inItaly' \ inItaly : info'[g].end > now]_vars

\* Votings that come from the form can be listed: no date of theirs is one that
\* the ledger keeps and does not read (ElectionInfoConverter.java, utils.ts:21-28).
AllAreListed == page # None /\ page.byForm => page.read

\* The invariant: a date is the same for the form, the ledger and the browsers.
DatesInv ==
    /\ DatesTypeOK
    /\ KeptIsAsked
    /\ ShownIsPicked
    /\ StatusesAgree
    /\ AllAreListed
=============================================================================
