--------------------------- MODULE VotingsProofs ---------------------------
(***************************************************************************)
(* Proofs about what becomes of a voting: it is created as a whole or not  *)
(* at all seen, its dates are the same for the form, the ledger and the    *)
(* browsers, and its counts add up, whatever longs make of their sums.     *)
(***************************************************************************)
EXTENDS Votings, FiniteSetTheorems, TLAPS

----------------------------------------------------------------------------
(* Clocks *)

Infos == [start : Int, end : Int, readable : BOOLEAN]

\* The constants, without the module they are parameters of.
LEMMA DatesConstants ==
    /\ Spring \in Nat /\ Autumn \in Nat
    /\ "Rome" \in Zones /\ Clock \subseteq Nat /\ MaxNow \in Nat
    /\ Fractions \subseteq BOOLEAN /\ None \notin Infos
  BY DatingAssumption DEF Dating!DatesAssumption, Infos

\* A clock is ahead by 0, 1 or 2.
LEMMA Offsets ==
    ASSUME NEW t \in Int, NEW zone
    PROVE  /\ Dating!Offset(zone, t) \in {0, 1, 2}
           /\ Dating!RomeOffset(t) \in {1, 2}
           /\ Dating!Wall(zone, t) = t + Dating!Offset(zone, t)
           /\ Dating!Offset("Rome", t) = Dating!RomeOffset(t)
  BY DEF Dating!Offset, Dating!RomeOffset, Dating!Wall

\* Every reading of a clock has one to three instants that it stands for, and of
\* one that occurs they read it.
LEMMA InstantsOfAReading ==
    ASSUME NEW w \in Int, NEW zone
    PROVE  /\ Dating!Instants(zone, w) # {}
           /\ Dating!Instants(zone, w) \subseteq {w, w - 1, w - 2}
           /\ zone = "Rome" /\ Dating!IsTime(w)
                => \A t \in Dating!Instants(zone, w) : Dating!Wall(zone, t) = w
  BY DEF Dating!Instants, Dating!IsTime

\* The first of them is one of them.
LEMMA DateIsTheFirst ==
    ASSUME NEW w \in Int, NEW zone
    PROVE  /\ Dating!DateOf(zone, w) \in Int
           /\ \A t \in Dating!Instants(zone, w) : Dating!DateOf(zone, w) <= t
<1> DEFINE S == Dating!Instants(zone, w)
<1>1. S # {} /\ S \subseteq {w, w - 1, w - 2}
  BY InstantsOfAReading
<1> HIDE DEF S
<1>2. \E x \in S : \A y \in S : x <= y
  <2>1. CASE w - 2 \in S
    BY <1>1, <2>1
  <2>2. CASE w - 2 \notin S /\ w - 1 \in S
    BY <1>1, <2>2
  <2>3. CASE w - 2 \notin S /\ w - 1 \notin S
    <3>1. S = {w}
      BY <1>1, <2>3
    <3> QED
      BY <3>1
  <2> QED
    BY <2>1, <2>2, <2>3
<1>3. Dating!DateOf(zone, w) = CHOOSE x \in S : \A y \in S : x <= y
  BY DEF Dating!DateOf, Dating!Min, S
<1>4. /\ Dating!DateOf(zone, w) \in S
      /\ \A y \in S : Dating!DateOf(zone, w) <= y
  BY <1>2, <1>3
<1> QED
  BY <1>1, <1>4 DEF S

\* A date that is sent is that of instants, and what the API answers of an instant
\* is that instant.
LEMMA DatesAreInstants ==
    /\ \A d \in Dating!Date : \A t \in Dating!convertToUTC(d) : t \in Int
    /\ \A t \in Int : Dating!Received(t) = t
<1>1. ASSUME NEW d \in Dating!Date, NEW t \in Dating!convertToUTC(d)
      PROVE  t \in Int
  <2>1. d.wall \in Int
    <3>1. d.wall \in Clock
      BY DEF Dating!Date
    <3>2. \A c \in Clock : c \in Int
      BY DatesConstants
    <3> QED
      BY <3>1, <3>2, Zenon
  <2> QED
    BY <2>1, InstantsOfAReading DEF Dating!convertToUTC
<1>2. ASSUME NEW t \in Int
      PROVE  Dating!Received(t) = t
  BY Offsets DEF Dating!Received, Dating!convertToISO
<1> QED
  BY <1>1, <1>2

----------------------------------------------------------------------------
(* The dates of a voting *)

\* The form of a browser in Italy compares the first instant of the end.
LEMMA AcceptedInItaly ==
    ASSUME NEW s \in Clock, NEW e \in Clock, Dating!validValue(s, e, "Rome"), hour \in Int,
           NEW b \in Dating!convertToUTC([wall |-> e, zone |-> "Rome"])
    PROVE  b > hour
<1>1. e \in Int
  BY DatesConstants
<1>2. b \in Dating!Instants("Rome", e) /\ Dating!DateOf("Rome", e) > hour
  BY DEF Dating!convertToUTC, Dating!validValue
<1>3. b \in Int
  BY <1>1, <1>2, InstantsOfAReading
<1> QED
  BY <1>1, <1>2, <1>3, DateIsTheFirst

\* What an ElectionInfo becomes of the dates that were sent.
LEMMA InfoOfTheDates ==
    ASSUME DatesInv, NEW g \in Goal, NEW s \in Dating!Date, NEW e \in Dating!Date,
           NEW fraction \in BOOLEAN, Dating!createElectionInfo(g, s, e, fraction)
    PROVE  /\ info[g] = None /\ info' \in [Goal -> {None} \cup Infos]
           /\ \E a \in Dating!convertToUTC(s), b \in Dating!convertToUTC(e) :
                /\ a \in Int /\ b \in Int /\ a < b
                /\ info' = [info EXCEPT ![g] = [start |-> a, end |-> b, readable |-> ~fraction]]
           /\ asked' = [asked EXCEPT ![g] = <<s, e>>]
           /\ asked' \in [Goal -> {None} \cup (Dating!Date \X Dating!Date)]
           /\ UNCHANGED <<hour, voting, list>>
<1>1. PICK a \in Dating!convertToUTC(s), b \in Dating!convertToUTC(e) :
         a < b /\ info' = [info EXCEPT ![g] = [start |-> a, end |-> b, readable |-> ~fraction]]
  BY DEF Dating!createElectionInfo, Dating!Stored
<1>2. a \in Int /\ b \in Int
  BY DatesAreInstants
<1>3. /\ info \in [Goal -> {None} \cup Infos]
      /\ asked \in [Goal -> {None} \cup (Dating!Date \X Dating!Date)]
  BY DEF DatesInv, Dating!DatesInv, Dating!DatesTypeOK, Infos
<1>4. [start |-> a, end |-> b, readable |-> ~fraction] \in Infos
  BY <1>2 DEF Infos
<1>5. asked' = [asked EXCEPT ![g] = <<s, e>>] /\ info[g] = None /\ UNCHANGED <<hour, voting, list>>
  BY DEF Dating!createElectionInfo
<1> QED
  BY <1>1, <1>2, <1>3, <1>4, <1>5

\* The invariant without the page, as a state predicate of the voting alone.
VotingHolds ==
    /\ info \in [Goal -> {None} \cup Infos]
    /\ asked \in [Goal -> {None} \cup (Dating!Date \X Dating!Date)]
    /\ voting \cup byForm \subseteq {g \in Goal : info[g] # None}
    /\ inItaly \subseteq byForm
    /\ Dating!KeptIsAsked

\* And of the page.
PageHolds ==
    /\ list = None \/ (list.zone \in Zones /\ DOMAIN list.list \subseteq Goal)
    /\ Dating!ShownIsPicked
    /\ Dating!AllAreListed

\* The browsers and the chaincode agree, for an instant is received as it is kept.
LEMMA DatesInvIs ==
    hour \in 0 .. MaxNow /\ VotingHolds /\ PageHolds <=> DatesInv
<1>1. ASSUME hour \in 0 .. MaxNow, VotingHolds PROVE Dating!StatusesAgree
  <2> SUFFICES ASSUME NEW g \in voting, hour # info[g].start
               PROVE  (Dating!Received(info[g].start) <= hour /\ hour < Dating!Received(info[g].end))
                        <=> (info[g].start < hour /\ hour < info[g].end)
    BY DEF Dating!StatusesAgree
  <2>1. g \in Goal /\ info[g] \in Infos
    BY <1>1 DEF VotingHolds
  <2>2. info[g].start \in Int /\ info[g].end \in Int /\ hour \in Int
    BY <1>1, <2>1, DatesConstants DEF Infos
  <2> QED
    BY <2>2, DatesAreInstants
<1> QED
  BY <1>1 DEF DatesInv, Dating!DatesInv, Dating!DatesTypeOK, VotingHolds, PageHolds, Infos

\* An ElectionInfo is created, by the form or not.
LEMMA InfoKeepsVotingHolds ==
    ASSUME DatesInv, NEW g \in Goal, NEW s \in Dating!Date, NEW e \in Dating!Date,
           NEW fraction \in BOOLEAN, Dating!createElectionInfo(g, s, e, fraction),
           byForm' \in SUBSET (byForm \cup {g}), byForm \subseteq byForm',
           g \in byForm' => ~fraction, inItaly' \subseteq byForm'
    PROVE  VotingHolds'
<1>1. PICK a \in Dating!convertToUTC(s), b \in Dating!convertToUTC(e) :
         /\ a \in Int /\ b \in Int /\ a < b
         /\ info' = [info EXCEPT ![g] = [start |-> a, end |-> b, readable |-> ~fraction]]
  BY InfoOfTheDates
<1>2. /\ info[g] = None /\ info' \in [Goal -> {None} \cup Infos]
      /\ asked' = [asked EXCEPT ![g] = <<s, e>>]
      /\ asked' \in [Goal -> {None} \cup (Dating!Date \X Dating!Date)]
      /\ UNCHANGED <<hour, voting, list>>
  BY InfoOfTheDates
<1>3. VotingHolds
  BY DatesInvIs
<1>4. /\ info'[g] = [start |-> a, end |-> b, readable |-> ~fraction]
      /\ asked'[g] = <<s, e>>
      /\ \A h \in Goal \ {g} : info'[h] = info[h] /\ asked'[h] = asked[h]
  BY <1>1, <1>2, <1>3 DEF VotingHolds
<1>5. info'[g] # None
  <2>1. [start |-> a, end |-> b, readable |-> ~fraction] \in Infos
    BY <1>1 DEF Infos
  <2>2. info'[g] \in Infos
    BY <1>4, <2>1
  <2> QED
    BY <2>2, DatesConstants
<1>6. voting' \cup byForm' \subseteq {h \in Goal : info'[h] # None}
  BY <1>2, <1>3, <1>4, <1>5 DEF VotingHolds
<1>7. Dating!KeptIsAsked'
  <2> SUFFICES ASSUME NEW h \in Goal, info'[h] # None
               PROVE  /\ asked'[h] \in Dating!Date \X Dating!Date
                      /\ info'[h].start \in Dating!convertToUTC(asked'[h][1])
                      /\ info'[h].end \in Dating!convertToUTC(asked'[h][2])
                      /\ info'[h].start < info'[h].end
                      /\ h \in byForm' => info'[h].readable
    BY DEF Dating!KeptIsAsked
  <2>1. CASE h = g
    <3>1. asked'[h] = <<s, e>> /\ asked'[h][1] = s /\ asked'[h][2] = e
      BY <1>4, <2>1
    <3>2. info'[h].start = a /\ info'[h].end = b /\ info'[h].readable = ~fraction
      BY <1>4, <2>1
    <3>3. asked'[h] \in Dating!Date \X Dating!Date
      BY <3>1
    <3>4. h \in byForm' => info'[h].readable
      BY <2>1, <3>2
    <3> QED
      BY <1>1, <3>1, <3>2, <3>3, <3>4
  <2>2. CASE h # g
    <3>1. info'[h] = info[h] /\ asked'[h] = asked[h] /\ (h \in byForm' => h \in byForm)
      BY <1>4, <2>2
    <3> QED
      BY <1>3, <3>1 DEF VotingHolds, Dating!KeptIsAsked
  <2> QED
    BY <2>1, <2>2
<1> QED
  BY <1>2, <1>6, <1>7 DEF VotingHolds, Dating!Date

\* What is left of the votings after one is deleted, or has its Election.
LEMMA VotingKeepsVotingHolds ==
    ASSUME VotingHolds, NEW g \in Goal,
           Dating!createElection(g) \/ Dating!deleteElectionInfo(g)
    PROVE  VotingHolds'
<1>1. CASE Dating!createElection(g)
  BY <1>1 DEF Dating!createElection, VotingHolds, Dating!KeptIsAsked, Dating!Date
<1>2. CASE Dating!deleteElectionInfo(g)
  <2>1. /\ info' = [info EXCEPT ![g] = None] /\ asked' = [asked EXCEPT ![g] = None]
        /\ voting' = voting \ {g} /\ byForm' = byForm \ {g} /\ inItaly' = inItaly \ {g}
    BY <1>2 DEF Dating!deleteElectionInfo
  <2>2. /\ info' \in [Goal -> {None} \cup Infos]
        /\ asked' \in [Goal -> {None} \cup (Dating!Date \X Dating!Date)]
        /\ info'[g] = None /\ \A h \in Goal \ {g} : info'[h] = info[h] /\ asked'[h] = asked[h]
    BY <2>1 DEF VotingHolds
  <2>3. /\ voting' \cup byForm' \subseteq {h \in Goal : info'[h] # None}
        /\ inItaly' \subseteq byForm'
    BY <2>1, <2>2 DEF VotingHolds
  <2>4. Dating!KeptIsAsked'
    BY <2>1, <2>2 DEF VotingHolds, Dating!KeptIsAsked, Dating!Date
  <2> QED
    BY <2>2, <2>3, <2>4 DEF VotingHolds, Dating!Date
<1> QED
  BY <1>1, <1>2

\* A browser in Italy that reads an instant of a date shows that date.
LEMMA ShownIsAsked ==
    ASSUME NEW d \in Dating!Date, NEW t \in Dating!convertToUTC(d),
           d.zone = "Rome", Dating!IsTime(d.wall)
    PROVE  Dating!ShownDate("Rome", t) = d.wall
<1>1. t \in Int /\ Dating!Received(t) = t
  BY DatesAreInstants
<1>2. d.wall \in Int
  <2>1. d.wall \in Clock /\ \A c \in Clock : c \in Int
    BY DatesConstants DEF Dating!Date
  <2> QED
    BY <2>1, Zenon
<1>3. t \in Dating!Instants("Rome", d.wall)
  BY DEF Dating!convertToUTC
<1> QED
  BY <1>1, <1>2, <1>3, InstantsOfAReading DEF Dating!ShownDate

\* A browser loads the votings.
LEMMA LoadKeepsPageHolds ==
    ASSUME VotingHolds, NEW zone \in Zones, Dating!Load(zone)
    PROVE  PageHolds'
<1> DEFINE there == {g \in Goal : info[g] # None}
           entry(g) == [asked |-> asked[g], at |-> <<info[g].start, info[g].end>>,
                        shown |-> <<Dating!ShownDate(zone, info[g].start),
                                    Dating!ShownDate(zone, info[g].end)>>]
<1>1. list' = [zone |-> zone, read |-> \A g \in there : info[g].readable,
               byForm |-> there \subseteq byForm, list |-> [g \in there |-> entry(g)]]
  BY DEF Dating!Load
<1>2. /\ list'.zone = zone /\ DOMAIN list'.list = there
      /\ \A g \in there : list'.list[g].asked = asked[g] /\ list'.list[g].shown = entry(g).shown
  BY <1>1
<1>3. Dating!AllAreListed'
  <2>1. list'.byForm = (there \subseteq byForm)
        /\ list'.read = (\A g \in there : info[g].readable)
    BY <1>1
  <2>2. there \subseteq byForm => \A g \in there : info[g].readable
    BY DEF VotingHolds, Dating!KeptIsAsked
  <2> QED
    BY <2>1, <2>2 DEF Dating!AllAreListed
<1>4. Dating!ShownIsPicked'
  <2> SUFFICES ASSUME list'.zone = "Rome", NEW g \in there, NEW i \in {1, 2},
                      asked[g][i].zone = "Rome", Dating!IsTime(asked[g][i].wall)
               PROVE  list'.list[g].shown[i] = asked[g][i].wall
    BY <1>2 DEF Dating!ShownIsPicked
  <2>1. /\ asked[g] \in Dating!Date \X Dating!Date
        /\ info[g].start \in Dating!convertToUTC(asked[g][1])
        /\ info[g].end \in Dating!convertToUTC(asked[g][2])
    BY DEF VotingHolds, Dating!KeptIsAsked
  <2>2. asked[g][1] \in Dating!Date /\ asked[g][2] \in Dating!Date
    BY <2>1
  <2>3. list'.list[g].shown[1] = Dating!ShownDate("Rome", info[g].start)
        /\ list'.list[g].shown[2] = Dating!ShownDate("Rome", info[g].end)
    BY <1>2
  <2> QED
    BY <2>1, <2>2, <2>3, ShownIsAsked
<1> QED
  BY <1>2, <1>3, <1>4 DEF PageHolds

\* The other steps leave the page as it was.
LEMMA PageStays ==
    ASSUME PageHolds, UNCHANGED list
    PROVE  PageHolds'
  BY DEF PageHolds, Dating!ShownIsPicked, Dating!AllAreListed

\* At first nothing is picked.
LEMMA DatesInitially == Dating!Init => DatesInv
<1> SUFFICES ASSUME Dating!Init PROVE DatesInv
  OBVIOUS
<1>1. hour \in 0 .. MaxNow
  BY DatesConstants DEF Dating!Init
<1>2. VotingHolds
  BY DEF Dating!Init, VotingHolds, Dating!KeptIsAsked
<1>3. PageHolds
  BY DEF Dating!Init, PageHolds, Dating!ShownIsPicked, Dating!AllAreListed
<1> QED
  BY <1>1, <1>2, <1>3, DatesInvIs

\* No change of the clocks makes a browser show another time than was picked.
LEMMA DatesNext == DatesInv /\ [Dating!Next]_(Dating!vars) => DatesInv'
<1> SUFFICES ASSUME DatesInv, [Dating!Next]_(Dating!vars) PROVE DatesInv'
  OBVIOUS
<1>1. hour \in 0 .. MaxNow /\ VotingHolds /\ PageHolds
  BY DatesInvIs
<1>2. (hour \in 0 .. MaxNow /\ VotingHolds /\ PageHolds)' => DatesInv'
  BY DatesInvIs, PTL
<1>3. CASE \E g \in Goal, zone \in Zones : Dating!Submit(g, zone)
  <2>1. PICK g \in Goal, zone \in Zones : Dating!Submit(g, zone)
    BY <1>3
  <2>2. PICK s \in Clock, e \in Clock :
           /\ Dating!createElectionInfo(g, [wall |-> s, zone |-> "Rome"],
                                        [wall |-> e, zone |-> "Rome"], FALSE)
           /\ byForm' = byForm \cup {g}
           /\ inItaly' = IF zone = "Rome" THEN inItaly \cup {g} ELSE inItaly
    BY <2>1 DEF Dating!Submit
  <2>3. [wall |-> s, zone |-> "Rome"] \in Dating!Date /\ [wall |-> e, zone |-> "Rome"] \in Dating!Date
    BY DEF Dating!Date
  <2>4. inItaly' \subseteq byForm'
    BY <1>1, <2>2 DEF VotingHolds
  <2>5. VotingHolds'
    BY <2>2, <2>3, <2>4, InfoKeepsVotingHolds
  <2>6. UNCHANGED <<hour, list>>
    BY <2>2 DEF Dating!createElectionInfo
  <2> QED
    BY <1>1, <1>2, <2>5, <2>6, PageStays
<1>4. CASE \E g \in Goal : Dating!Post(g)
  <2>1. PICK g \in Goal, s \in Dating!Date, e \in Dating!Date, fraction \in Fractions :
           /\ Dating!createElectionInfo(g, s, e, fraction)
           /\ UNCHANGED <<byForm, inItaly>>
    BY <1>4 DEF Dating!Post
  <2>2. g \notin byForm /\ fraction \in BOOLEAN
    BY <1>1, <2>1, DatesConstants DEF Dating!createElectionInfo, VotingHolds
  <2>3. byForm' \in SUBSET (byForm \cup {g}) /\ byForm \subseteq byForm'
        /\ g \notin byForm' /\ inItaly' \subseteq byForm'
    BY <1>1, <2>1, <2>2 DEF VotingHolds
  <2>4. VotingHolds'
    BY <2>1, <2>2, <2>3, InfoKeepsVotingHolds
  <2>5. UNCHANGED <<hour, list>>
    BY <2>1 DEF Dating!createElectionInfo
  <2> QED
    BY <1>1, <1>2, <2>4, <2>5, PageStays
<1>5. CASE \E g \in Goal : Dating!createElection(g) \/ Dating!deleteElectionInfo(g)
  <2>1. VotingHolds'
    BY <1>1, <1>5, VotingKeepsVotingHolds
  <2>2. UNCHANGED <<hour, list>>
    BY <1>5 DEF Dating!createElection, Dating!deleteElectionInfo
  <2> QED
    BY <1>1, <1>2, <2>1, <2>2, PageStays
<1>6. ASSUME UNCHANGED <<info, voting, asked, byForm, inItaly>>
      PROVE  VotingHolds'
  BY <1>1, <1>6 DEF VotingHolds, Dating!KeptIsAsked, Dating!Date
<1>7. CASE \E zone \in Zones : Dating!Load(zone)
  <2>1. UNCHANGED <<hour, info, voting, asked, byForm, inItaly>>
    BY <1>7 DEF Dating!Load
  <2>2. PageHolds'
    BY <1>1, <1>7, LoadKeepsPageHolds
  <2> QED
    BY <1>1, <1>2, <1>6, <2>1, <2>2
<1>8. CASE Dating!Tick \/ UNCHANGED Dating!vars
  <2>1. UNCHANGED <<info, voting, asked, byForm, inItaly, list>>
    BY <1>8 DEF Dating!Tick, Dating!vars
  <2>2. hour' \in 0 .. MaxNow
    BY <1>1, <1>8, DatesConstants DEF Dating!Tick, Dating!vars
  <2> QED
    BY <1>1, <1>2, <1>6, <2>1, <2>2, PageStays
<1> QED
  BY <1>3, <1>4, <1>5, <1>7, <1>8 DEF Dating!Next

\* For all dates, changes of the clock and zones of browsers: a browser in Italy shows
\* the reading of the clock that was picked, the browsers and the chaincode agree on
\* what is open, and votings that come from the form can be listed.
THEOREM DatesAreTheSame == Dating!Spec => []DatesInv
  BY DatesInitially, DatesNext, PTL DEF Dating!Spec

\* A voting that the form accepts in Italy is not over.
THEOREM FormRefusesElapsed == Dating!Spec => AcceptedIsNotOver
<1>1. DatesInv /\ [Dating!Next]_(Dating!vars)
      => [\A g \in inItaly' \ inItaly : info'[g].end > hour]_(Dating!vars)
  <2> SUFFICES ASSUME DatesInv, Dating!Next, NEW h \in inItaly' \ inItaly
               PROVE  info'[h].end > hour
    OBVIOUS
  <2>1. hour \in Int /\ info \in [Goal -> {None} \cup Infos]
    BY DatesInvIs, DatesConstants DEF VotingHolds
  <2>2. PICK g \in Goal : Dating!Submit(g, "Rome") /\ h = g
    <3>1. \A g \in Goal, zone \in Zones : Dating!Submit(g, zone) => zone = "Rome" /\ h = g
      BY DEF Dating!Submit
    <3>2. \A g \in Goal : ~Dating!Post(g)
      BY DEF Dating!Post
    <3>3. \A g \in Goal : ~Dating!createElection(g) /\ ~Dating!deleteElectionInfo(g)
      BY DEF Dating!createElection, Dating!deleteElectionInfo
    <3>4. (\A zone \in Zones : ~Dating!Load(zone)) /\ ~Dating!Tick
      BY DEF Dating!Load, Dating!Tick
    <3> QED
      BY <3>1, <3>2, <3>3, <3>4 DEF Dating!Next
  <2>3. PICK s \in Clock, e \in Clock :
           /\ Dating!validValue(s, e, "Rome")
           /\ Dating!createElectionInfo(g, [wall |-> s, zone |-> "Rome"],
                                        [wall |-> e, zone |-> "Rome"], FALSE)
    BY <2>2 DEF Dating!Submit
  <2>4. PICK a \in Dating!convertToUTC([wall |-> s, zone |-> "Rome"]),
             b \in Dating!convertToUTC([wall |-> e, zone |-> "Rome"]) :
           info' = [info EXCEPT ![g] = [start |-> a, end |-> b, readable |-> ~FALSE]]
    BY <2>3 DEF Dating!createElectionInfo, Dating!Stored
  <2>5. b > hour
    BY <2>1, <2>3, AcceptedInItaly
  <2>6. info'[g].end = b
    BY <2>1, <2>4
  <2> QED
    BY <2>2, <2>5, <2>6
<1> QED
  BY <1>1, DatesAreTheSame, PTL DEF Dating!Spec, AcceptedIsNotOver, Dating!AcceptedIsNotOver

----------------------------------------------------------------------------
(* The form *)

\* A form, field by field.
Fields(v, choices) ==
    [goal |-> v.goal, voters |-> v.voters,
     terms |-> [start |-> v.terms.start, end |-> v.terms.end, choices |-> choices]]

\* A form whose choices are replaced, field by field.
LEMMA FormOfFields ==
    ASSUME NEW v \in Typed \cup {StartValues}, NEW choices
    PROVE  [v EXCEPT !.terms.choices = choices] = Fields(v, choices)
<1>1. PICK goal, count, start, end, old :
         v = [goal |-> goal, voters |-> count,
              terms |-> [start |-> start, end |-> end, choices |-> old]]
  BY TypedAssumption DEF StartValues
<1>2. [v EXCEPT !.terms.choices = choices] =
         [goal |-> goal, voters |-> count,
          terms |-> [start |-> start, end |-> end, choices |-> choices]]
  BY <1>1
<1> QED
  BY <1>1, <1>2 DEF Fields

\* A form of which the first choices are kept, field by field.
LEMMA FormOfTheFirst ==
    ASSUME NEW v \in Typed, NEW n
    PROVE  [v EXCEPT !.terms.choices = SubSeq(@, 1, n)] = Fields(v, SubSeq(v.terms.choices, 1, n))
<1>1. PICK goal, count, start, end, old :
         v = [goal |-> goal, voters |-> count,
              terms |-> [start |-> start, end |-> end, choices |-> old]]
  BY TypedAssumption
<1>2. PICK c : c = SubSeq(old, 1, n)
  OBVIOUS
<1>3. [v EXCEPT !.terms.choices = SubSeq(@, 1, n)] =
         [goal |-> goal, voters |-> count,
          terms |-> [start |-> start, end |-> end, choices |-> c]]
  <2>1. [v EXCEPT !.terms.choices = SubSeq(@, 1, n)] = [v EXCEPT !.terms.choices = c]
    BY <1>1, <1>2, Zenon
  <2> QED
    BY <1>1, <2>1
<1> QED
  BY <1>1, <1>2, <1>3 DEF Fields

\* The choices of a form are sequences of at least two.
LEMMA FormChoices ==
    ASSUME NEW v \in Typed \cup {StartValues}
    PROVE  /\ v.terms.choices \in Seq(Choice \cup {Empty})
           /\ Len(v.terms.choices) \in 2 .. MaxChoices
<1>1. CASE v \in Typed
  BY <1>1, TypedAssumption
<1>2. CASE v = StartValues
  <2>1. v.terms.choices = <<Empty, Empty>>
    BY <1>2 DEF StartValues
  <2>2. <<Empty, Empty>> \in Seq(Choice \cup {Empty}) /\ Len(<<Empty, Empty>>) = 2
    OBVIOUS
  <2> QED
    BY <2>1, <2>2, CreationAssumption
<1> QED
  BY <1>1, <1>2

\* FormIsTyped, with the fields.
TypedAs(v, n, choices) ==
    /\ form = Fields(v, choices)
    /\ n <= Len(v.terms.choices) /\ n <= Len(choices)
    /\ choices \in Seq(Choice \cup {Empty})
    /\ \A i \in 1 .. Len(choices) : choices[i] = IF i <= n THEN v.terms.choices[i] ELSE Empty

FormHasFields ==
    \E v \in Typed \cup {StartValues}, n \in 2 .. MaxChoices, c \in Seq(Choice \cup {Empty}) :
        TypedAs(v, n, c)

\* The form has its fields, as a predicate of the state.
LEMMA FormIsTypedAs == FormIsTyped <=> FormHasFields
<1>1. ASSUME FormIsTyped
      PROVE  \E v \in Typed \cup {StartValues}, n \in 2 .. MaxChoices, c \in Seq(Choice \cup {Empty}) :
                TypedAs(v, n, c)
  <2>1. PICK v \in Typed \cup {StartValues}, n \in 2 .. MaxChoices :
          /\ form = [v EXCEPT !.terms.choices = form.terms.choices]
          /\ n <= Len(v.terms.choices) /\ n <= Len(form.terms.choices)
          /\ form.terms.choices \in Seq(Choice \cup {Empty})
          /\ \A i \in 1 .. Len(form.terms.choices) :
                form.terms.choices[i] = IF i <= n THEN v.terms.choices[i] ELSE Empty
    BY <1>1 DEF FormIsTyped
  <2>2. form = Fields(v, form.terms.choices)
    BY <2>1, FormOfFields
  <2>3. TypedAs(v, n, form.terms.choices)
    BY <2>1, <2>2 DEF TypedAs
  <2> QED
    BY <2>1, <2>3
<1>2. ASSUME NEW v \in Typed \cup {StartValues}, NEW n \in 2 .. MaxChoices,
             NEW c \in Seq(Choice \cup {Empty}), TypedAs(v, n, c)
      PROVE  FormIsTyped
  <2>1. form.terms.choices = c
    BY <1>2 DEF TypedAs, Fields
  <2> QED
    BY <1>2, <2>1, FormOfFields DEF FormIsTyped, TypedAs
<1> QED
  BY <1>1, <1>2 DEF FormHasFields

\* What the rules accept was typed, and is what the chaincode asks for.
LEMMA AcceptedForms ==
    ASSUME FormIsTyped, Accepted(form)
    PROVE  /\ form \in Forms
           /\ form.voters > 1 /\ form.terms.start < form.terms.end
           /\ isValidList(form.terms.choices)
<1>1. PICK v \in Typed \cup {StartValues}, n \in 2 .. MaxChoices, c \in Seq(Choice \cup {Empty}) :
         TypedAs(v, n, c)
  BY FormIsTypedAs DEF FormHasFields
<1>2. form.goal = v.goal /\ form.terms.choices = c
  BY <1>1 DEF TypedAs, Fields
<1>3. v \in Typed
  BY <1>2 DEF Accepted, StartValues
<1>4. Len(c) = n
  <2>1. Len(c) \in Nat /\ n \in Nat /\ n <= Len(c) /\ n >= 2
    BY <1>1 DEF TypedAs
  <2>2. CASE n < Len(c)
    <3>1. Len(c) \in 1 .. Len(c) /\ ~(Len(c) <= n)
      BY <2>1, <2>2
    <3>2. c[Len(c)] = Empty /\ Len(c) \in DOMAIN c
      BY <1>1, <3>1 DEF TypedAs
    <3>3. Empty \in Range(c)
      BY <3>2 DEF Range
    <3> QED
      BY <1>2, <3>3 DEF Accepted, isValidList
  <2> QED
    BY <2>1, <2>2
<1>5. c = SubSeq(v.terms.choices, 1, n)
  <2> DEFINE old == v.terms.choices
  <2>1. old \in Seq(Choice \cup {Empty}) /\ n \in 2 .. Len(old)
    BY <1>1, FormChoices DEF TypedAs
  <2>2. \A i \in 1 .. n : c[i] = old[i]
    BY <1>1, <1>4 DEF TypedAs
  <2> HIDE DEF old
  <2>3. SubSeq(old, 1, n) \in Seq(Choice \cup {Empty}) /\ Len(SubSeq(old, 1, n)) = n
        /\ \A i \in 1 .. n : SubSeq(old, 1, n)[i] = old[i]
    BY <2>1
  <2>4. c = SubSeq(old, 1, n)
    BY <1>4, <2>2, <2>3
  <2> QED
    BY <2>4 DEF old
<1>6. n \in 2 .. Len(v.terms.choices)
  BY <1>1, FormChoices DEF TypedAs
<1>7. form = [v EXCEPT !.terms.choices = SubSeq(@, 1, n)]
  <2>1. [v EXCEPT !.terms.choices = SubSeq(@, 1, n)] = Fields(v, SubSeq(v.terms.choices, 1, n))
    BY <1>3, FormOfTheFirst
  <2>2. form = Fields(v, c)
    BY <1>1 DEF TypedAs
  <2> QED
    BY <1>5, <2>1, <2>2, Zenon
<1>8. form \in Forms
  <2> DEFINE first(w, m) == [w EXCEPT !.terms.choices = SubSeq(@, 1, m)]
             firsts(w) == { first(w, m) : m \in 2 .. Len(w.terms.choices) }
  <2>1. form \in firsts(v)
    <3>1. form = first(v, n)
      BY <1>7
    <3> HIDE DEF first
    <3> QED
      BY <1>6, <3>1, Zenon
  <2>2. Forms = UNION { firsts(w) : w \in Typed }
    BY DEF Forms
  <2> HIDE DEF firsts
  <2> QED
    BY <1>3, <2>1, <2>2, Zenon
<1> QED
  BY <1>8 DEF Accepted

\* The form as it is filled, gets fields for choices, and loses them.
FormIsFilled == form \in Typed \cup {StartValues}

\* A form that is filled is one that can be typed.
LEMMA FilledIsTyped == FormIsFilled => FormIsTyped
<1> SUFFICES ASSUME NEW v \in Typed \cup {StartValues}, form = v
             PROVE  FormIsTyped
  BY DEF FormIsFilled
<1>1. /\ v.terms.choices \in Seq(Choice \cup {Empty})
      /\ Len(v.terms.choices) \in 2 .. MaxChoices
  BY FormChoices
<1>2. v = Fields(v, v.terms.choices)
  BY TypedAssumption DEF Fields, StartValues
<1>3. TypedAs(v, Len(v.terms.choices), v.terms.choices)
  BY <1>1, <1>2 DEF TypedAs
<1> QED
  BY <1>1, <1>3, FormIsTypedAs DEF FormHasFields

\* So is one to which a choice is added.
LEMMA AddedIsTyped ==
    ASSUME FormIsTyped, AddChoice
    PROVE  FormIsTyped' /\ Len(form'.terms.choices) \in 2 .. MaxChoices
<1>1. PICK v \in Typed \cup {StartValues}, n \in 2 .. MaxChoices, c \in Seq(Choice \cup {Empty}) :
         TypedAs(v, n, c)
  BY FormIsTypedAs DEF FormHasFields
<1>2. PICK d : d = Append(c, Empty)
  OBVIOUS
<1>3. /\ d \in Seq(Choice \cup {Empty}) /\ Len(d) = Len(c) + 1 /\ d[Len(c) + 1] = Empty
      /\ \A i \in 1 .. Len(c) : d[i] = c[i]
  BY <1>2
<1>4. form = Fields(v, c)
  BY <1>1 DEF TypedAs
<1>5. form' = Fields(v, d)
  <2>1. form' = [form EXCEPT !.terms.choices = d]
    BY <1>2, <1>4 DEF AddChoice, Fill, Fields
  <2> QED
    BY <1>4, <2>1 DEF Fields
<1>6. Len(c) < MaxChoices /\ Len(c) \in Nat /\ n \in Nat /\ n >= 2 /\ n <= Len(c)
  BY <1>1, <1>4 DEF AddChoice, Fields, TypedAs
<1>7. TypedAs(v, n, d)'
  <2>1. \A i \in 1 .. Len(d) : d[i] = IF i <= n THEN v.terms.choices[i] ELSE Empty
    <3> SUFFICES ASSUME NEW i \in 1 .. Len(d)
                 PROVE  d[i] = IF i <= n THEN v.terms.choices[i] ELSE Empty
      OBVIOUS
    <3>1. CASE i \in 1 .. Len(c)
      BY <1>1, <1>3, <3>1 DEF TypedAs
    <3>2. CASE i = Len(c) + 1
      BY <1>3, <1>6, <3>2
    <3> QED
      BY <1>3, <1>6, <3>1, <3>2
  <2> QED
    <3>1. n <= Len(v.terms.choices) /\ n <= Len(d)
      BY <1>1, <1>3, <1>6 DEF TypedAs
    <3> QED
      BY <1>3, <1>5, <2>1, <3>1 DEF TypedAs, Fields
<1>8. FormIsTyped'
  <2>1. FormHasFields'
    BY <1>1, <1>3, <1>7, Zenon DEF FormHasFields
  <2> QED
    BY <2>1, FormIsTypedAs, PTL
<1> QED
  BY <1>3, <1>5, <1>6, <1>8, CreationAssumption DEF Fields

\* So is one of which a choice is removed.
LEMMA RemovedIsTyped ==
    ASSUME FormIsTyped, RemoveChoice, Len(form.terms.choices) \in 2 .. MaxChoices
    PROVE  FormIsTyped' /\ Len(form'.terms.choices) \in 2 .. MaxChoices
<1>1. PICK v \in Typed \cup {StartValues}, n \in 2 .. MaxChoices, c \in Seq(Choice \cup {Empty}) :
         TypedAs(v, n, c)
  BY FormIsTypedAs DEF FormHasFields
<1>2. PICK d : d = SubSeq(c, 1, Len(c) - 1)
  OBVIOUS
<1>3. form = Fields(v, c)
  BY <1>1 DEF TypedAs
<1>4. Len(c) > 2 /\ Len(c) \in Nat /\ n \in Nat /\ n >= 2 /\ n <= Len(c) /\ Len(c) <= MaxChoices
  BY <1>1, <1>3, CreationAssumption DEF RemoveChoice, Fields, TypedAs
<1>5. /\ d \in Seq(Choice \cup {Empty}) /\ Len(d) = Len(c) - 1
      /\ \A i \in 1 .. Len(d) : d[i] = c[i]
  BY <1>2, <1>4
<1>6. form' = Fields(v, d)
  <2>1. form' = [form EXCEPT !.terms.choices = d]
    BY <1>2, <1>3 DEF RemoveChoice, Fill, Fields
  <2> QED
    BY <1>3, <2>1 DEF Fields
<1>7. PICK m \in 2 .. MaxChoices : m <= n /\ m <= Len(d) /\ (m = n \/ m = Len(d))
  <2>1. CASE n <= Len(d)
    BY <1>1, <1>4, <2>1
  <2>2. CASE n > Len(d)
    BY <1>4, <1>5, <2>2, CreationAssumption
  <2> QED
    BY <1>4, <1>5, <2>1, <2>2
<1>8. TypedAs(v, m, d)'
  <2>1. \A i \in 1 .. Len(d) : d[i] = IF i <= m THEN v.terms.choices[i] ELSE Empty
    <3> SUFFICES ASSUME NEW i \in 1 .. Len(d)
                 PROVE  d[i] = IF i <= m THEN v.terms.choices[i] ELSE Empty
      OBVIOUS
    <3>1. i \in 1 .. Len(c) /\ (i <= m <=> i <= n)
      BY <1>4, <1>5, <1>7
    <3> QED
      BY <1>1, <1>5, <3>1 DEF TypedAs
  <2>2. m <= Len(v.terms.choices)
    <3>1. Len(v.terms.choices) \in Nat /\ n <= Len(v.terms.choices) /\ m \in Nat
      BY <1>1, FormChoices, CreationAssumption DEF TypedAs
    <3> QED
      BY <1>4, <1>7, <3>1
  <2> QED
    BY <1>5, <1>6, <1>7, <2>1, <2>2 DEF TypedAs, Fields
<1>9. FormIsTyped'
  <2>1. FormHasFields'
    BY <1>1, <1>5, <1>7, <1>8, Zenon DEF FormHasFields
  <2> QED
    BY <2>1, FormIsTypedAs, PTL
<1>10. form'.terms.choices = d
  BY <1>6 DEF Fields
<1>11. Len(d) \in 2 .. MaxChoices
  BY <1>4, <1>5, CreationAssumption
<1> QED
  BY <1>9, <1>10, <1>11

----------------------------------------------------------------------------
(* The submissions *)

\* What a submission at work is of: a form that the rules accepted.
IsAccepted(w) ==
    /\ w \in [at : At, values : Forms]
    /\ w.values.voters > 1 /\ w.values.terms.start < w.values.terms.end
    /\ isValidList(w.values.terms.choices)

\* A submission at work is of terms that may be created.
LEMMA CallAtWork ==
    ASSUME CreationTypeOK, CallsAreAccepted, NEW s \in Slot, call[s].at # "idle"
    PROVE  /\ IsAccepted(call[s])
           /\ TermsOf(s) \in Terms
<1>1. call[s] \in {Idle} \cup [at : At, values : Forms]
  BY DEF CreationTypeOK
<1>2. call[s] \in [at : At, values : Forms]
  BY <1>1 DEF Idle
<1>3. TermsOf(s) \in Terms
  BY <1>2 DEF Terms, TermsOf
<1> QED
  BY <1>2, <1>3 DEF CallsAreAccepted, TermsOf, IsAccepted

\* The submissions stay accepted when one of them ends, or moves on to where what
\* it has made is there, and nothing is taken away.
LEMMA CallsMove ==
    ASSUME CreationTypeOK, CallsAreAccepted,
           infos \subseteq infos', elections \subseteq elections', scheduled \subseteq scheduled',
           NEW s \in Slot, NEW w, call' = [call EXCEPT ![s] = w],
           \/ w = Idle
           \/ /\ IsAccepted(w)
              /\ w.at # "info" => w.values.terms \in infos'
              /\ w.at \in {"voting", "scheduled"} => w.values.terms \in elections'
              /\ w.at = "scheduled" => w.values.terms \in scheduled'
    PROVE  CallsAreAccepted' /\ call' \in [Slot -> {Idle} \cup [at : At, values : Forms]]
<1>1. call \in [Slot -> {Idle} \cup [at : At, values : Forms]]
  BY DEF CreationTypeOK
<1>2. w \in {Idle} \cup [at : At, values : Forms]
  BY DEF IsAccepted
<1>3. call' \in [Slot -> {Idle} \cup [at : At, values : Forms]]
  BY <1>1, <1>2
<1>4. CallsAreAccepted'
  <2> SUFFICES ASSUME NEW r \in Slot, call'[r].at # "idle"
               PROVE  /\ call'[r].values.voters > 1
                      /\ call'[r].values.terms.start < call'[r].values.terms.end
                      /\ isValidList(call'[r].values.terms.choices)
                      /\ call'[r].at # "info" => call'[r].values.terms \in infos'
                      /\ call'[r].at \in {"voting", "scheduled"} => call'[r].values.terms \in elections'
                      /\ call'[r].at = "scheduled" => call'[r].values.terms \in scheduled'
    BY DEF CallsAreAccepted, TermsOf
  <2>1. CASE r = s
    <3>1. call'[r] = w
      BY <1>1, <2>1
    <3>2. w # Idle
      BY <3>1 DEF Idle
    <3> QED
      BY <3>1, <3>2 DEF IsAccepted
  <2>2. CASE r # s
    <3>1. call'[r] = call[r]
      BY <1>1, <2>2
    <3> QED
      BY <3>1 DEF CallsAreAccepted, TermsOf
  <2> QED
    BY <2>1, <2>2
<1> QED
  BY <1>3, <1>4

----------------------------------------------------------------------------
(* CreationInv *)

\* All of it but what follows from the rest.
Creating ==
    /\ CreationTypeOK
    /\ FormIsTyped
    /\ CallsAreAccepted
    /\ EveryElectionHasInfo
    /\ CreatedIsWhole
    /\ ShownHasElection

\* At first nothing is created.
LEMMA CreatingInitially == Init => Creating
<1> SUFFICES ASSUME Init
             PROVE  Creating
  OBVIOUS
<1>1. FormIsTyped
  BY FilledIsTyped DEF Init, FormIsFilled
<1>2. CreationTypeOK
  <2>1. Len(form.terms.choices) \in 2 .. MaxChoices
    BY FormChoices DEF Init
  <2>2. dashboard \in [at : {"idle", "details", "shown", "not-found"},
                       details : SUBSET Terms, votings : SUBSET Terms]
    BY DEF Init, Read
  <2>3. call \in [Slot -> {Idle} \cup [at : At, values : Forms]]
    BY DEF Init
  <2>4. now \in 0 .. MaxTime /\ faults \in 0 .. MaxFaults
    BY CreationAssumption DEF Init
  <2>5. infos \cup elections \cup scheduled \subseteq Terms /\ submitting \in BOOLEAN
    BY DEF Init
  <2> QED
    BY <2>1, <2>2, <2>3, <2>4, <2>5 DEF CreationTypeOK
<1>3. CallsAreAccepted
  BY DEF Init, CallsAreAccepted, Idle
<1> QED
  BY <1>1, <1>2, <1>3 DEF Creating, Init, EveryElectionHasInfo, CreatedIsWhole, ShownHasElection, Read

\* The page alone changes what its fields hold.
LEMMA CreatingForm ==
    ASSUME Creating, FormIsTyped', Len(form'.terms.choices) \in 2 .. MaxChoices,
           UNCHANGED <<now, ledgers, submitting, response, call, dashboard, faults>>
    PROVE  Creating'
  BY DEF Creating, CreationTypeOK, CallsAreAccepted, TermsOf, EveryElectionHasInfo,
         CreatedIsWhole, ShownHasElection, ledgers

\* Each step keeps it.
LEMMA CreatingNext == Creating /\ [Next]_vars => Creating'
<1> SUFFICES ASSUME Creating, [Next]_vars
             PROVE  Creating'
  OBVIOUS
<1>1. /\ CreationTypeOK /\ FormIsTyped /\ CallsAreAccepted
      /\ EveryElectionHasInfo /\ CreatedIsWhole /\ ShownHasElection
  BY DEF Creating
<1>2. form' = form => FormIsTyped'
  BY <1>1 DEF FormIsTyped
<1>3. CASE \E values \in Typed : Fill(values)
  <2>1. form' \in Typed
    BY <1>3 DEF Fill
  <2>2. FormIsFilled'
    BY <2>1 DEF FormIsFilled
  <2>3. FormIsTyped'
    BY <2>2, FilledIsTyped, PTL
  <2> QED
    BY <1>3, <2>1, <2>3, FormChoices, CreatingForm DEF Fill
<1>4. CASE AddChoice
  BY <1>1, <1>4, AddedIsTyped, CreatingForm DEF AddChoice, Fill
<1>5. CASE RemoveChoice
  <2>1. Len(form.terms.choices) \in 2 .. MaxChoices
    BY <1>1 DEF CreationTypeOK
  <2> QED
    BY <1>1, <1>5, <2>1, RemovedIsTyped, CreatingForm DEF RemoveChoice, Fill
<1>6. ASSUME NEW s \in Slot, Submit(s)
      PROVE  Creating'
  <2>1. CASE Accepted(form)
    <3>1. form \in Forms /\ form.voters > 1 /\ form.terms.start < form.terms.end
          /\ isValidList(form.terms.choices)
      BY <1>1, <2>1, AcceptedForms
    <3> DEFINE w == [at |-> "info", values |-> form]
    <3>2. IsAccepted(w) /\ w.at = "info"
      BY <3>1 DEF IsAccepted, At
    <3>3. /\ call' = [call EXCEPT ![s] = w] /\ submitting' = TRUE
          /\ UNCHANGED <<now, infos, elections, scheduled, form, response, dashboard, faults>>
      BY <1>6, <2>1 DEF Submit, ledgers
    <3> HIDE DEF w
    <3>4. CallsAreAccepted' /\ call' \in [Slot -> {Idle} \cup [at : At, values : Forms]]
      BY <1>1, <3>2, <3>3, CallsMove
    <3> QED
      BY <1>1, <1>2, <3>3, <3>4
      DEF Creating, CreationTypeOK, EveryElectionHasInfo, CreatedIsWhole, ShownHasElection
  <2>2. CASE ~Accepted(form)
    <3>1. /\ submitting' = FALSE /\ response' = Failure
          /\ UNCHANGED <<now, infos, elections, scheduled, form, call, dashboard, faults>>
      BY <1>6, <2>2 DEF Submit, ledgers
    <3> QED
      BY <1>1, <1>2, <3>1 DEF Creating, CreationTypeOK, CallsAreAccepted, TermsOf,
         EveryElectionHasInfo, CreatedIsWhole, ShownHasElection
  <2> QED
    BY <2>1, <2>2
<1>7. ASSUME NEW s \in Slot, CreateInfo(s) \/ CreateVoting(s) \/ Schedule(s) \/ Fail(s)
      PROVE  Creating'
  <2>1. call[s].at # "idle"
    BY <1>7 DEF CreateInfo, CreateVoting, Schedule, Fail
  <2>2. IsAccepted(call[s]) /\ TermsOf(s) \in Terms
    BY <1>1, <2>1, CallAtWork
  <2>3. UNCHANGED <<now, form, submitting, response, dashboard>>
    BY <1>7 DEF CreateInfo, CreateVoting, Schedule, Fail, page
  <2>4. /\ infos' \in {infos, infos \cup {TermsOf(s)}}
        /\ elections' \in {elections, elections \cup {TermsOf(s)}}
        /\ scheduled' \in {scheduled, scheduled \cup {TermsOf(s)}}
    BY <1>7 DEF CreateInfo, CreateVoting, Schedule, Fail, ledgers
  <2>5. PICK at \in {"none"} \cup At :
           /\ call' = [call EXCEPT ![s] = IF at = "none" THEN Idle ELSE [call[s] EXCEPT !.at = at]]
           /\ at # "info"
           /\ at # "none" => TermsOf(s) \in infos'
           /\ at \in {"voting", "scheduled"} => TermsOf(s) \in elections'
           /\ at = "scheduled" => TermsOf(s) \in scheduled'
    <3>1. CASE call' = [call EXCEPT ![s] = Idle]
      <4> WITNESS "none" \in {"none"} \cup At
      <4> QED
        BY <3>1
    <3>2. CASE call' # [call EXCEPT ![s] = Idle]
      <4>1. call[s].at # "info" => TermsOf(s) \in infos
        BY <1>1, <2>1 DEF CallsAreAccepted
      <4>2. call[s].at \in {"voting", "scheduled"} => TermsOf(s) \in elections
        BY <1>1, <2>1 DEF CallsAreAccepted
      <4>3. CASE CreateInfo(s)
        <5>1. call' = [call EXCEPT ![s].at = "made"] /\ TermsOf(s) \in infos'
          BY <3>2, <4>3 DEF CreateInfo, Moves, Throws
        <5> QED
          BY <5>1 DEF At
      <4>4. CASE CreateVoting(s)
        <5>1. call' = [call EXCEPT ![s].at = "voting"] /\ TermsOf(s) \in elections' /\ TermsOf(s) \in infos'
          BY <3>2, <4>1, <4>4 DEF CreateVoting, Moves, Throws
        <5> QED
          BY <5>1 DEF At
      <4>5. CASE Schedule(s)
        <5>1. /\ call' = [call EXCEPT ![s].at = "scheduled"]
              /\ TermsOf(s) \in scheduled' /\ TermsOf(s) \in elections' /\ TermsOf(s) \in infos'
          BY <4>1, <4>2, <4>5 DEF Schedule, Moves
        <5> QED
          BY <5>1 DEF At
      <4> QED
        BY <1>7, <3>2, <4>3, <4>4, <4>5 DEF Fail, Throws
    <3> QED
      BY <3>1, <3>2
  <2> DEFINE w == IF at = "none" THEN Idle ELSE [call[s] EXCEPT !.at = at]
  <2>6. w = Idle \/ /\ IsAccepted(w)
                    /\ w.at = at /\ w.values.terms = TermsOf(s)
    <3>1. CASE at \in At
      <4>1. call[s] \in [at : At, values : Forms]
        BY <2>2 DEF IsAccepted
      <4>2. [call[s] EXCEPT !.at = at] = [at |-> at, values |-> call[s].values]
        BY <4>1
      <4>3. at # "none"
        BY <3>1 DEF At
      <4> QED
        BY <2>2, <3>1, <4>2, <4>3 DEF IsAccepted, TermsOf
    <3> QED
      BY <3>1
  <2>7. call' = [call EXCEPT ![s] = w] /\ (w # Idle => at # "none")
    BY <2>5
  <2> HIDE DEF w
  <2>8. CallsAreAccepted' /\ call' \in [Slot -> {Idle} \cup [at : At, values : Forms]]
    <3>1. \/ w = Idle
          \/ /\ IsAccepted(w)
             /\ w.at # "info" => w.values.terms \in infos'
             /\ w.at \in {"voting", "scheduled"} => w.values.terms \in elections'
             /\ w.at = "scheduled" => w.values.terms \in scheduled'
      BY <2>5, <2>6, <2>7
    <3> QED
      BY <1>1, <2>4, <2>7, <3>1, CallsMove
  <2>9. elections' \subseteq infos' /\ scheduled' \subseteq elections'
    <3>1. elections' # elections => TermsOf(s) \in infos
      <4>1. elections' # elections => call[s].at = "made"
        BY <1>7 DEF CreateInfo, CreateVoting, Schedule, Fail, ledgers
      <4> QED
        BY <1>1, <4>1 DEF CallsAreAccepted
    <3>2. scheduled' # scheduled => TermsOf(s) \in elections
      <4>1. scheduled' # scheduled => call[s].at = "voting"
        BY <1>7 DEF CreateInfo, CreateVoting, Schedule, Fail, ledgers
      <4> QED
        BY <1>1, <4>1 DEF CallsAreAccepted
    <3> QED
      BY <1>1, <2>4, <3>1, <3>2 DEF EveryElectionHasInfo
  <2>10. CreationTypeOK'
    <3>1. faults' \in 0 .. MaxFaults
      BY <1>1, <1>7, CreationAssumption
      DEF CreationTypeOK, CreateInfo, CreateVoting, Schedule, Fail
    <3> QED
      BY <1>1, <2>2, <2>3, <2>4, <2>8, <3>1 DEF CreationTypeOK
  <2>11. CreatedIsWhole' /\ ShownHasElection'
    BY <1>1, <2>3, <2>4 DEF CreatedIsWhole, ShownHasElection
  <2> QED
    BY <1>2, <2>3, <2>8, <2>9, <2>10, <2>11 DEF Creating, EveryElectionHasInfo
<1>8. ASSUME NEW s \in Slot, Created(s)
      PROVE  Creating'
  <2>1. /\ call' = [call EXCEPT ![s] = Idle]
        /\ form' = StartValues /\ submitting' = FALSE /\ response' = TermsOf(s)
        /\ UNCHANGED <<now, infos, elections, scheduled, dashboard, faults>>
    BY <1>8 DEF Created, Throws, ledgers
  <2>2. TermsOf(s) \in infos \cap elections \cap scheduled
    BY <1>1, <1>8 DEF Created, CallsAreAccepted
  <2>3. FormIsFilled'
    BY <2>1 DEF FormIsFilled
  <2>4. FormIsTyped'
    BY <2>3, FilledIsTyped, PTL
  <2>5. Len(form'.terms.choices) \in 2 .. MaxChoices
    BY <2>1, FormChoices
  <2>6. CallsAreAccepted' /\ call' \in [Slot -> {Idle} \cup [at : At, values : Forms]]
    BY <1>1, <2>1, CallsMove
  <2> QED
    BY <1>1, <2>1, <2>2, <2>4, <2>5, <2>6
    DEF Creating, CreationTypeOK, EveryElectionHasInfo, CreatedIsWhole, ShownHasElection
<1>9. CASE ReadDetails \/ ReadInfos
  <2>1. UNCHANGED <<now, infos, elections, scheduled, form, submitting, response, call, faults>>
    BY <1>9 DEF ReadDetails, ReadInfos, ledgers, page
  <2>2. dashboard' \in [at : {"idle", "details", "shown", "not-found"},
                        details : SUBSET Terms, votings : SUBSET Terms]
        /\ dashboard'.details \cup dashboard'.votings \subseteq elections
    BY <1>1, <1>9 DEF CreationTypeOK, ShownHasElection, ReadDetails, ReadInfos, Read
  <2> QED
    BY <1>1, <1>2, <2>1, <2>2 DEF Creating, CreationTypeOK, CallsAreAccepted, TermsOf,
       EveryElectionHasInfo, CreatedIsWhole, ShownHasElection
<1>10. CASE Tick \/ UNCHANGED vars
  <2>1. UNCHANGED <<infos, elections, scheduled, form, submitting, response, call, dashboard, faults>>
    BY <1>10 DEF Tick, vars, ledgers, page
  <2>2. now' \in 0 .. MaxTime
    BY <1>1, <1>10, CreationAssumption DEF CreationTypeOK, Tick, vars
  <2> QED
    BY <1>1, <1>2, <2>1, <2>2 DEF Creating, CreationTypeOK, CallsAreAccepted, TermsOf,
       EveryElectionHasInfo, CreatedIsWhole, ShownHasElection
<1> QED
  BY <1>3, <1>4, <1>5, <1>6, <1>7, <1>8, <1>9, <1>10 DEF Next

\* The choices of a form that may be accepted.
LEMMA ChoicesOfForms ==
    ASSUME NEW t \in Terms
    PROVE  t.choices \in Seq(Choice \cup {Empty}) /\ Len(t.choices) >= 2
<1>1. PICK w \in Forms : t = w.terms
  BY DEF Terms
<1> DEFINE first(v, n) == [v EXCEPT !.terms.choices = SubSeq(@, 1, n)]
<1>2. PICK v \in Typed : w \in { first(v, n) : n \in 2 .. Len(v.terms.choices) }
  BY <1>1 DEF Forms
<1>3. PICK n \in 2 .. Len(v.terms.choices) : w = first(v, n)
  BY <1>2
<1>4. PICK c : c = SubSeq(v.terms.choices, 1, n)
  OBVIOUS
<1>5. w = Fields(v, c)
  BY <1>3, <1>4, FormOfTheFirst, Zenon
<1>6. c \in Seq(Choice \cup {Empty}) /\ Len(c) = n /\ n >= 2
  <2>1. v.terms.choices \in Seq(Choice \cup {Empty}) /\ Len(v.terms.choices) \in Nat
    BY FormChoices
  <2> QED
    BY <1>4, <2>1
<1> QED
  BY <1>1, <1>5, <1>6 DEF Fields

\* Two choices that are not the blank vote are enough for the chaincode.
LEMMA TwoChoices ==
    ASSUME NEW t \in Terms, isValidList(t.choices),
           Blank \notin Range(t.choices) \/ Len(t.choices) > 2
    PROVE  checkChoices(t.choices)
<1>1. PICK c : c = t.choices
  OBVIOUS
<1>2. c \in Seq(Choice \cup {Empty}) /\ Len(c) \in Nat /\ Len(c) >= 2 /\ DOMAIN c = 1 .. Len(c)
  BY <1>1, ChoicesOfForms
<1>3. IsInjective(c) /\ (Blank \notin Range(c) \/ Len(c) > 2)
  BY <1>1 DEF isValidList
<1>4. PICK i \in DOMAIN c, j \in DOMAIN c : i # j /\ c[i] # Blank /\ c[j] # Blank
  <2>1. CASE Blank \notin Range(c)
    <3>1. 1 \in DOMAIN c /\ 2 \in DOMAIN c
      BY <1>2
    <3> QED
      BY <2>1, <3>1 DEF Range
  <2>2. CASE Len(c) > 2
    <3>1. 1 \in DOMAIN c /\ 2 \in DOMAIN c /\ 3 \in DOMAIN c
      BY <1>2, <2>2
    <3> QED
      BY <1>3, <3>1 DEF IsInjective
  <2> QED
    BY <1>3, <2>1, <2>2
<1>5. c[i] # c[j] /\ {c[i], c[j]} \subseteq Range(c) \ {Blank}
  BY <1>3, <1>4 DEF IsInjective, Range
<1>6. IsFiniteSet(Range(c) \ {Blank})
  <2>1. c \in Surjection(1 .. Len(c), Range(c))
    BY <1>2 DEF Surjection, Range
  <2>2. IsFiniteSet(Range(c))
    BY <1>2, <2>1, FS_Surjection, FS_Interval
  <2> QED
    BY <2>2, FS_RemoveElement
<1>7. Cardinality({c[i], c[j]}) = 2
  <2>1. PICK one : one = {c[i]}
    OBVIOUS
  <2>2. IsFiniteSet(one) /\ Cardinality(one) = 1
    BY <2>1, FS_Singleton
  <2>3. c[j] \notin one /\ one \cup {c[j]} = {c[i], c[j]}
    BY <1>5, <2>1
  <2>4. Cardinality(one \cup {c[j]}) = Cardinality(one) + 1
    BY <2>2, <2>3, FS_AddElement
  <2>5. Cardinality(one \cup {c[j]}) = 2
    BY <2>2, <2>4
  <2> QED
    BY <2>3, <2>5, Zenon
<1>8. Cardinality(Range(c) \ {Blank}) >= 2
  <2>1. Cardinality({c[i], c[j]}) <= Cardinality(Range(c) \ {Blank})
    BY <1>5, <1>6, FS_Subset
  <2>2. Cardinality(Range(c) \ {Blank}) \in Nat
    BY <1>6, FS_CardinalityType
  <2> QED
    BY <1>7, <2>1, <2>2
<1> QED
  BY <1>1, <1>3, <1>8 DEF checkChoices

\* It says more than CreationInv.
LEMMA CreatingAgrees == Creating => CreationInv
<1> SUFFICES ASSUME Creating
             PROVE  FormAgreesWithChaincode
  BY DEF Creating, CreationInv
<1> SUFFICES ASSUME NEW s \in Slot, call[s].at = "info",
                    Blank \notin Range(TermsOf(s).choices) \/ Len(TermsOf(s).choices) > 2
             PROVE  checkInfo(TermsOf(s), call[s].values.voters)
  BY DEF FormAgreesWithChaincode
<1>1. IsAccepted(call[s]) /\ TermsOf(s) \in Terms
  BY CallAtWork DEF Creating
<1>2. checkChoices(TermsOf(s).choices)
  BY <1>1, TwoChoices DEF IsAccepted, TermsOf
<1> QED
  BY <1>1, <1>2 DEF IsAccepted, TermsOf, checkInfo

\* For all submissions that may be at work at once, whatever is typed and whatever
\* fails: votings are created, said and shown as wholes, and the chaincode takes what
\* the form accepts.
THEOREM VotingsAreWhole == Spec => []CreationInv
  BY CreatingInitially, CreatingNext, CreatingAgrees, PTL DEF Spec

----------------------------------------------------------------------------
(* Sums of counts *)

\* Induction over the subsets of a finite set, for the set of those of which a claim
\* holds: one of which it does not would have a least one.
LEMMA SubsetInduction ==
    ASSUME NEW S, IsFiniteSet(S), NEW P,
           \A T \in SUBSET S : (\A V \in SUBSET T : V # T => V \in P) => T \in P
    PROVE  SUBSET S \subseteq P
<1> DEFINE U == { T \in SUBSET S : T \notin P }
<1>1. IsWellFoundedOn(StrictSubsetOrdering(S), SUBSET S)
  BY FS_StrictSubsetOrderingWellFounded, FS_FiniteSubsetsOfFinite
<1>2. CASE U # {}
  <2>1. U \subseteq SUBSET S
    OBVIOUS
  <2> HIDE DEF U
  <2>2. PICK T \in U : \A V \in U : ~(<<V, T>> \in StrictSubsetOrdering(S))
    BY <1>1, <1>2, <2>1, WFMin
  <2>3. \A V \in SUBSET T : V # T => V \in P
    BY <2>1, <2>2 DEF U, StrictSubsetOrdering
  <2>4. T \in SUBSET S /\ T \notin P
    BY DEF U
  <2> QED
    BY <2>3, <2>4
<1> QED
  BY <1>2

\* The element that a fold takes next.
Pick(T) == CHOOSE x \in T : TRUE

\* The parts of a fold of f over a finite set, by an operation on A given as a function.
IsFold(h, S, A, zero, op, f) ==
    /\ h \in [SUBSET S -> A]
    /\ \A T \in SUBSET S :
          h[T] = IF T = {} THEN zero ELSE op[<<f[Pick(T)], h[T \ {Pick(T)}]>>]

\* Two folds agree on the sets that both are over.
LEMMA FoldIsUnique ==
    ASSUME NEW A, NEW zero, NEW op, NEW f, NEW S, NEW R, NEW W \in SUBSET (S \cap R), IsFiniteSet(W),
           NEW g, IsFold(g, S, A, zero, op, f), NEW h, IsFold(h, R, A, zero, op, f)
    PROVE  g[W] = h[W]
<1> DEFINE P == { T \in SUBSET W : g[T] = h[T] }
<1>1. ASSUME NEW T \in SUBSET W, \A V \in SUBSET T : V # T => V \in P
      PROVE  T \in P
  <2>1. CASE T = {}
    BY <2>1 DEF IsFold
  <2>2. CASE T # {}
    <3>1. Pick(T) \in T
      BY <2>2 DEF Pick
    <3>2. g[T \ {Pick(T)}] = h[T \ {Pick(T)}]
      BY <1>1, <3>1
    <3>3. T \in SUBSET S /\ T \in SUBSET R
      BY <1>1
    <3> QED
      BY <2>2, <3>2, <3>3 DEF IsFold
  <2> QED
    BY <2>1, <2>2
<1> HIDE DEF P
<1>2. SUBSET W \subseteq P
  BY <1>1, SubsetInduction
<1> QED
  BY <1>2 DEF P

\* There is such a fold over every finite set.
LEMMA FoldExists ==
    ASSUME NEW S, IsFiniteSet(S), NEW A, NEW zero \in A, NEW op \in [A \X A -> A], NEW f \in [S -> A]
    PROVE  \E h : IsFold(h, S, A, zero, op, f)
<1> DEFINE P == { T \in SUBSET S : \E h : IsFold(h, T, A, zero, op, f) }
<1>1. ASSUME NEW T \in SUBSET S, \A V \in SUBSET T : V # T => V \in P
      PROVE  T \in P
  <2> DEFINE fold(V) == CHOOSE h : IsFold(h, V, A, zero, op, f)
             last == IF T = {} THEN zero ELSE op[<<f[Pick(T)], fold(T \ {Pick(T)})[T \ {Pick(T)}]>>]
             h == [V \in SUBSET T |-> IF V = T THEN last ELSE fold(V)[V]]
  <2>1. \A V \in SUBSET T : V # T => IsFold(fold(V), V, A, zero, op, f)
    BY <1>1
  <2> HIDE DEF fold
  <2>2. \A V \in SUBSET T : V # T => fold(V)[V] \in A
    BY <2>1 DEF IsFold
  <2>3. last \in A
    <3>1. CASE T # {}
      <4>1. Pick(T) \in T
        BY <3>1 DEF Pick
      <4>2. fold(T \ {Pick(T)})[T \ {Pick(T)}] \in A /\ f[Pick(T)] \in A
        BY <2>2, <4>1
      <4> QED
        BY <3>1, <4>2
    <3> QED
      BY <3>1
  <2>4. h \in [SUBSET T -> A]
    BY <2>2, <2>3
  <2>5. ASSUME NEW V \in SUBSET T
        PROVE  h[V] = IF V = {} THEN zero ELSE op[<<f[Pick(V)], h[V \ {Pick(V)}]>>]
    <3>1. CASE V = {}
      <4>1. CASE V = T
        BY <3>1, <4>1
      <4>2. CASE V # T
        BY <2>1, <3>1, <4>2 DEF IsFold
      <4> QED
        BY <4>1, <4>2
    <3>2. CASE V # {}
      <4> DEFINE W == V \ {Pick(V)}
      <4>1. Pick(V) \in V /\ W \in SUBSET V /\ W # V /\ W # T /\ W \in SUBSET T
        BY <3>2 DEF Pick
      <4>2. h[W] = fold(W)[W]
        BY <4>1
      <4>3. CASE V = T
        BY <3>2, <4>2, <4>3
      <4>4. CASE V # T
        <5>1. IsFold(fold(V), V, A, zero, op, f) /\ IsFold(fold(W), W, A, zero, op, f)
          BY <2>1, <4>1, <4>4
        <5>2. W \in SUBSET (V \cap W) /\ IsFiniteSet(W)
          BY <4>1, FS_Subset
        <5> HIDE DEF W
        <5>3. fold(V)[W] = fold(W)[W]
          BY <5>1, <5>2, FoldIsUnique
        <5>4. fold(V)[V] = op[<<f[Pick(V)], fold(V)[W]>>]
          BY <3>2, <5>1 DEF IsFold, W
        <5>5. h[V] = fold(V)[V]
          BY <4>4
        <5> QED
          BY <3>2, <4>2, <5>3, <5>4, <5>5 DEF W
      <4> QED
        BY <4>3, <4>4
    <3> QED
      BY <3>1, <3>2
  <2> HIDE DEF h
  <2>6. IsFold(h, T, A, zero, op, f)
    BY <2>4, <2>5 DEF IsFold
  <2> QED
    BY <2>6
<1> HIDE DEF P
<1>2. SUBSET S \subseteq P
  BY <1>1, SubsetInduction
<1> QED
  BY <1>2 DEF P

\* The parts of a sum of whole numbers, added up as the fold takes them; the sums of
\* longs are wrapped at each.
IsSum(g, S, f) ==
    /\ g \in [SUBSET S -> Int]
    /\ \A T \in SUBSET S :
          g[T] = IF T = {} THEN 0 ELSE f[Pick(T)] + g[T \ {Pick(T)}]

IsLongSum(g, S, f) ==
    /\ g \in [SUBSET S -> Int]
    /\ \A T \in SUBSET S :
          g[T] = IF T = {} THEN 0 ELSE Counting!Wrap(f[Pick(T)] + g[T \ {Pick(T)}])

\* A sum that wraps is an integer.
LEMMA WrapIsInt == \A n \in Int : Counting!Wrap(n) \in Int
  BY CountingAssumption DEF Counting!Wrap, Counting!CountsAssumption

\* The total of the model is the sum.
LEMMA ExactIsSum ==
    ASSUME NEW S, IsFiniteSet(S), NEW f \in [S -> Int]
    PROVE  \E g : IsSum(g, S, f) /\ Counting!Exact(f) = g[S]
<1> DEFINE eq(g) == g = [T \in SUBSET S |-> IF T = {} THEN 0 ELSE f[Pick(T)] + g[T \ {Pick(T)}]]
           sum == CHOOSE g : eq(g)
<1>1. Counting!Exact(f) = sum[S]
  BY DEF Counting!Exact, Counting!FoldFunction, Counting!FoldFunctionOnSet, Counting!MapThenFoldSet, Pick
<1>2. \E g : eq(g)
  <2> DEFINE plus == [p \in Int \X Int |-> p[1] + p[2]]
  <2>1. plus \in [Int \X Int -> Int]
    OBVIOUS
  <2>2. \A a, b \in Int : plus[<<a, b>>] = a + b
    OBVIOUS
  <2> HIDE DEF plus
  <2>3. PICK h : IsFold(h, S, Int, 0, plus, f)
    <3>1. 0 \in Int
      OBVIOUS
    <3> QED
      BY <2>1, <3>1, FoldExists, Zenon
  <2>4. ASSUME NEW T \in SUBSET S
        PROVE  h[T] = IF T = {} THEN 0 ELSE f[Pick(T)] + h[T \ {Pick(T)}]
    <3>1. CASE T = {}
      BY <2>3, <3>1 DEF IsFold
    <3>2. CASE T # {}
      <4>1. Pick(T) \in T
        BY <3>2 DEF Pick
      <4>2. f[Pick(T)] \in Int /\ h[T \ {Pick(T)}] \in Int
        BY <2>3, <4>1 DEF IsFold
      <4> QED
        BY <2>2, <2>3, <3>2, <4>2 DEF IsFold
    <3> QED
      BY <3>1, <3>2
  <2>5. eq(h)
    BY <2>3, <2>4 DEF IsFold
  <2> QED
    BY <2>5
<1>3. eq(sum)
  BY <1>2
<1> HIDE DEF sum
<1>4. \A T \in SUBSET S : sum[T] = IF T = {} THEN 0 ELSE f[Pick(T)] + sum[T \ {Pick(T)}]
  BY <1>3
<1>5. \A T \in SUBSET S : sum[T] \in Int
  <2> DEFINE P == { T \in SUBSET S : sum[T] \in Int }
  <2>1. ASSUME NEW T \in SUBSET S, \A V \in SUBSET T : V # T => V \in P
        PROVE  T \in P
    <3>1. CASE T = {}
      <4>1. sum[T] = 0
        BY <1>4, <3>1
      <4> QED
        BY <4>1
    <3>2. CASE T # {}
      <4>1. Pick(T) \in T
        BY <3>2 DEF Pick
      <4>2. f[Pick(T)] \in Int /\ sum[T \ {Pick(T)}] \in Int
        BY <2>1, <4>1
      <4>3. sum[T] = f[Pick(T)] + sum[T \ {Pick(T)}]
        BY <1>4, <3>2
      <4> QED
        BY <4>2, <4>3
    <3> QED
      BY <3>1, <3>2
  <2> HIDE DEF P
  <2>2. SUBSET S \subseteq P
    BY <2>1, SubsetInduction
  <2> QED
    BY <2>2 DEF P
<1>6. IsSum(sum, S, f)
  BY <1>3, <1>4, <1>5 DEF IsSum
<1> QED
  BY <1>1, <1>6

\* The sum of longs, as long as it fits, is the sum.
LEMMA LongSumIsSum ==
    ASSUME NEW S, IsFiniteSet(S), NEW f \in [S -> Int]
    PROVE  \E g : IsLongSum(g, S, f) /\ Counting!LongSum(f) = g[S]
<1> DEFINE eq(g) ==
             g = [T \in SUBSET S |-> IF T = {} THEN 0
                                     ELSE Counting!Wrap(f[Pick(T)] + g[T \ {Pick(T)}])]
           sum == CHOOSE g : eq(g)
<1>1. Counting!LongSum(f) = sum[S]
  BY DEF Counting!LongSum, Counting!FoldFunction, Counting!FoldFunctionOnSet, Counting!MapThenFoldSet, Pick
<1>2. \E g : eq(g)
  <2> DEFINE plus == [p \in Int \X Int |-> Counting!Wrap(p[1] + p[2])]
  <2>1. plus \in [Int \X Int -> Int]
    BY WrapIsInt
  <2>2. \A a, b \in Int : plus[<<a, b>>] = Counting!Wrap(a + b)
    OBVIOUS
  <2> HIDE DEF plus
  <2>3. PICK h : IsFold(h, S, Int, 0, plus, f)
    <3>1. 0 \in Int
      OBVIOUS
    <3> QED
      BY <2>1, <3>1, FoldExists, Zenon
  <2>4. ASSUME NEW T \in SUBSET S
        PROVE  h[T] = IF T = {} THEN 0 ELSE Counting!Wrap(f[Pick(T)] + h[T \ {Pick(T)}])
    <3>1. CASE T = {}
      BY <2>3, <3>1 DEF IsFold
    <3>2. CASE T # {}
      <4>1. Pick(T) \in T
        BY <3>2 DEF Pick
      <4>2. f[Pick(T)] \in Int /\ h[T \ {Pick(T)}] \in Int
        BY <2>3, <4>1 DEF IsFold
      <4> QED
        BY <2>2, <2>3, <3>2, <4>2 DEF IsFold
    <3> QED
      BY <3>1, <3>2
  <2>5. eq(h)
    BY <2>3, <2>4 DEF IsFold
  <2> QED
    BY <2>5
<1>3. eq(sum)
  BY <1>2
<1> HIDE DEF sum
<1>4. \A T \in SUBSET S :
         sum[T] = IF T = {} THEN 0 ELSE Counting!Wrap(f[Pick(T)] + sum[T \ {Pick(T)}])
  BY <1>3
<1>5. \A T \in SUBSET S : sum[T] \in Int
  <2> DEFINE P == { T \in SUBSET S : sum[T] \in Int }
  <2>1. ASSUME NEW T \in SUBSET S, \A V \in SUBSET T : V # T => V \in P
        PROVE  T \in P
    <3>1. CASE T = {}
      BY <1>4, <3>1
    <3>2. CASE T # {}
      <4>1. Pick(T) \in T
        BY <3>2 DEF Pick
      <4>2. f[Pick(T)] + sum[T \ {Pick(T)}] \in Int
        BY <2>1, <4>1
      <4> QED
        BY <1>4, <3>2, <4>2, WrapIsInt
    <3> QED
      BY <3>1, <3>2
  <2> HIDE DEF P
  <2>2. SUBSET S \subseteq P
    BY <2>1, SubsetInduction
  <2> QED
    BY <2>2 DEF P
<1>6. IsLongSum(sum, S, f)
  BY <1>3, <1>4, <1>5 DEF IsLongSum
<1> QED
  BY <1>1, <1>6

\* A sum may be taken apart at any element.
LEMMA SumOfAny ==
    ASSUME NEW S, IsFiniteSet(S), NEW f \in [S -> Int], NEW g, IsSum(g, S, f)
    PROVE  \A T \in SUBSET S : \A x \in T : g[T] = f[x] + g[T \ {x}]
<1> DEFINE P == { T \in SUBSET S : \A x \in T : g[T] = f[x] + g[T \ {x}] }
<1>1. ASSUME NEW T \in SUBSET S, \A V \in SUBSET T : V # T => V \in P
      PROVE  T \in P
  <2> SUFFICES ASSUME NEW x \in T
               PROVE  g[T] = f[x] + g[T \ {x}]
    OBVIOUS
  <2> DEFINE y == Pick(T)
  <2>1. y \in T
    BY DEF Pick
  <2>2. g[T] = f[y] + g[T \ {y}]
    BY <2>1 DEF IsSum
  <2> HIDE DEF y
  <2>3. CASE x = y
    BY <2>2, <2>3
  <2>4. CASE x # y
    <3>1. T \ {y} \in P /\ x \in T \ {y}
      BY <1>1, <2>1, <2>4
    <3>2. T \ {x} \in P /\ y \in T \ {x}
      BY <1>1, <2>1, <2>4
    <3>3. PICK V : V = (T \ {y}) \ {x} /\ V = (T \ {x}) \ {y}
      OBVIOUS
    <3>4. g[T \ {y}] = f[x] + g[V]
      BY <3>1, <3>3
    <3>5. g[T \ {x}] = f[y] + g[V]
      BY <3>2, <3>3
    <3>6. f[x] \in Int /\ f[y] \in Int /\ g[V] \in Int
      BY <2>1, <3>3 DEF IsSum
    <3> QED
      BY <2>2, <3>4, <3>5, <3>6
  <2> QED
    BY <2>3, <2>4
<1> HIDE DEF P
<1>2. SUBSET S \subseteq P
  BY <1>1, SubsetInduction
<1> QED
  BY <1>2 DEF P

\* It depends on the counts that are added up only.
LEMMA SumOfSame ==
    ASSUME NEW S, IsFiniteSet(S), NEW f, NEW g, IsSum(g, S, f),
           NEW k, NEW h, IsSum(h, S, k), NEW T \in SUBSET S, \A x \in T : f[x] = k[x]
    PROVE  g[T] = h[T]
<1> DEFINE P == { V \in SUBSET T : g[V] = h[V] }
<1>1. ASSUME NEW V \in SUBSET T, \A W \in SUBSET V : W # V => W \in P
      PROVE  V \in P
  <2>1. CASE V = {}
    BY <2>1 DEF IsSum
  <2>2. CASE V # {}
    <3>1. Pick(V) \in V
      BY <2>2 DEF Pick
    <3>2. g[V \ {Pick(V)}] = h[V \ {Pick(V)}] /\ f[Pick(V)] = k[Pick(V)]
      BY <1>1, <3>1
    <3>3. g[V] = f[Pick(V)] + g[V \ {Pick(V)}] /\ h[V] = k[Pick(V)] + h[V \ {Pick(V)}]
      BY <2>2 DEF IsSum
    <3> QED
      BY <3>2, <3>3
  <2> QED
    BY <2>1, <2>2
<1> HIDE DEF P
<1>2. IsFiniteSet(T)
  BY FS_Subset
<1>3. SUBSET T \subseteq P
  BY <1>1, <1>2, SubsetInduction
<1> QED
  BY <1>3 DEF P

\* One more of a choice is one more in all.
LEMMA ExactOfOneMore ==
    ASSUME NEW S, IsFiniteSet(S), NEW f \in [S -> Int], NEW c \in S
    PROVE  Counting!Exact([f EXCEPT ![c] = f[c] + 1]) = Counting!Exact(f) + 1
<1> DEFINE k == [f EXCEPT ![c] = f[c] + 1]
<1>1. k \in [S -> Int] /\ k[c] = f[c] + 1 /\ \A x \in S \ {c} : k[x] = f[x]
  OBVIOUS
<1> HIDE DEF k
<1>2. PICK g : IsSum(g, S, f) /\ Counting!Exact(f) = g[S]
  BY ExactIsSum
<1>3. PICK h : IsSum(h, S, k) /\ Counting!Exact(k) = h[S]
  BY <1>1, ExactIsSum
<1>4. g[S] = f[c] + g[S \ {c}] /\ h[S] = k[c] + h[S \ {c}]
  BY <1>1, <1>2, <1>3, SumOfAny
<1>5. S \ {c} \in SUBSET S /\ \A x \in S \ {c} : f[x] = k[x]
  BY <1>1
<1>6. g[S \ {c}] = h[S \ {c}]
  BY <1>2, <1>3, <1>5, SumOfSame
<1>7. f[c] \in Int /\ g[S \ {c}] \in Int
  BY <1>2 DEF IsSum
<1>8. Counting!Exact(k) = Counting!Exact(f) + 1
  BY <1>1, <1>2, <1>3, <1>4, <1>6, <1>7
<1> QED
  BY <1>8 DEF k

\* Choices without votes add nothing.
LEMMA ExactOfPadded ==
    ASSUME NEW S, IsFiniteSet(S), NEW L \in SUBSET S, NEW f \in [L -> Int]
    PROVE  Counting!Exact([c \in S |-> IF c \in L THEN f[c] ELSE 0]) = Counting!Exact(f)
<1> DEFINE k == [c \in S |-> IF c \in L THEN f[c] ELSE 0]
<1>1. k \in [S -> Int] /\ \A x \in S : k[x] = IF x \in L THEN f[x] ELSE 0
  OBVIOUS
<1> HIDE DEF k
<1>2. IsFiniteSet(L)
  BY FS_Subset
<1>3. PICK g : IsSum(g, L, f) /\ Counting!Exact(f) = g[L]
  BY <1>2, ExactIsSum
<1>4. PICK h : IsSum(h, S, k) /\ Counting!Exact(k) = h[S]
  BY <1>1, ExactIsSum
<1> DEFINE P == { T \in SUBSET S : h[T] = g[T \cap L] }
<1>5. ASSUME NEW T \in SUBSET S, \A V \in SUBSET T : V # T => V \in P
      PROVE  T \in P
  <2>1. CASE T = {}
    <3>1. h[T] = 0 /\ g[T \cap L] = 0
      BY <1>3, <1>4, <2>1 DEF IsSum
    <3> QED
      BY <3>1
  <2>2. CASE T # {}
    <3> DEFINE x == Pick(T)
    <3>1. x \in T
      BY <2>2 DEF Pick
    <3>2. h[T] = k[x] + h[T \ {x}]
      BY <1>4, <2>2 DEF IsSum
    <3> HIDE DEF x
    <3>3. h[T \ {x}] = g[(T \ {x}) \cap L]
      BY <1>5, <3>1
    <3>4. CASE x \in L
      <4>1. x \in T \cap L /\ T \cap L \in SUBSET L /\ (T \cap L) \ {x} = (T \ {x}) \cap L
        BY <3>1, <3>4
      <4>2. g[T \cap L] = f[x] + g[(T \ {x}) \cap L]
        BY <1>2, <1>3, <4>1, SumOfAny
      <4>3. k[x] = f[x]
        BY <1>1, <3>1, <3>4
      <4> QED
        BY <3>2, <3>3, <4>2, <4>3
    <3>5. CASE x \notin L
      <4>1. (T \ {x}) \cap L = T \cap L
        BY <3>5
      <4>2. k[x] = 0 /\ g[T \cap L] \in Int
        BY <1>1, <1>3, <3>1, <3>5 DEF IsSum
      <4> QED
        BY <3>2, <3>3, <4>1, <4>2
    <3> QED
      BY <3>4, <3>5
  <2> QED
    BY <2>1, <2>2
<1> HIDE DEF P
<1>6. SUBSET S \subseteq P
  BY <1>5, SubsetInduction
<1>7. h[S] = g[L]
  <2>1. S \cap L = L
    OBVIOUS
  <2> QED
    BY <1>6, <2>1 DEF P
<1> QED
  BY <1>3, <1>4, <1>7 DEF k

\* A long keeps what fits.
LEMMA WrapKeepsLongs ==
    ASSUME NEW n \in Counting!Long
    PROVE  Counting!Wrap(n) = n
<1>1. PICK m \in Nat : m = 2 * (MaxLong + 1)
  BY CountingAssumption DEF Counting!CountsAssumption
<1>2. PICK x \in Nat : x = n + MaxLong + 1 /\ x < m
  BY <1>1, CountingAssumption DEF Counting!CountsAssumption, Counting!Long
<1>3. x % m = x
  BY <1>2
<1> QED
  BY <1>1, <1>2, <1>3, CountingAssumption DEF Counting!CountsAssumption, Counting!Wrap, Counting!Long

\* Of natural numbers that add up to a long the sum is exact, and none is larger.
LEMMA SumsOfNaturals ==
    ASSUME NEW S, IsFiniteSet(S), NEW f \in [S -> Nat]
    PROVE  /\ Counting!Exact(f) \in Nat
           /\ \A x \in S : f[x] <= Counting!Exact(f)
           /\ Counting!Exact(f) <= MaxLong => Counting!LongSum(f) = Counting!Exact(f)
<1>0. f \in [S -> Int]
  OBVIOUS
<1>1. PICK g : IsSum(g, S, f) /\ Counting!Exact(f) = g[S]
  BY <1>0, ExactIsSum
<1>2. PICK w : IsLongSum(w, S, f) /\ Counting!LongSum(f) = w[S]
  BY <1>0, LongSumIsSum
<1>3. \A T \in SUBSET S : g[T] \in Nat
  <2> DEFINE P == { T \in SUBSET S : g[T] \in Nat }
  <2>1. ASSUME NEW T \in SUBSET S, \A V \in SUBSET T : V # T => V \in P
        PROVE  T \in P
    <3>1. CASE T = {}
      <4>1. g[T] = 0
        BY <1>1, <3>1 DEF IsSum
      <4> QED
        BY <4>1
    <3>2. CASE T # {}
      <4>1. Pick(T) \in T
        BY <3>2 DEF Pick
      <4>2. f[Pick(T)] \in Nat /\ g[T \ {Pick(T)}] \in Nat
        BY <2>1, <4>1
      <4>3. g[T] = f[Pick(T)] + g[T \ {Pick(T)}]
        BY <1>1, <3>2 DEF IsSum
      <4> QED
        BY <4>2, <4>3
    <3> QED
      BY <3>1, <3>2
  <2> HIDE DEF P
  <2>2. SUBSET S \subseteq P
    BY <2>1, SubsetInduction
  <2> QED
    BY <2>2 DEF P
<1>4. \A x \in S : f[x] <= g[S]
  <2> TAKE x \in S
  <2>1. g[S] = f[x] + g[S \ {x}]
    BY <1>0, <1>1, SumOfAny
  <2>2. g[S \ {x}] \in Nat /\ f[x] \in Nat
    BY <1>3
  <2> QED
    BY <2>1, <2>2
<1>5. g[S] <= MaxLong => w[S] = g[S]
  <2> DEFINE P == { T \in SUBSET S : g[T] <= MaxLong => w[T] = g[T] }
  <2>1. ASSUME NEW T \in SUBSET S, \A V \in SUBSET T : V # T => V \in P
        PROVE  T \in P
    <3>1. CASE T = {}
      BY <1>1, <1>2, <3>1 DEF IsSum, IsLongSum
    <3>2. CASE T # {}
      <4> SUFFICES ASSUME g[T] <= MaxLong
                   PROVE  w[T] = g[T]
        OBVIOUS
      <4>1. Pick(T) \in T
        BY <3>2 DEF Pick
      <4>2. f[Pick(T)] \in Nat /\ g[T \ {Pick(T)}] \in Nat
        BY <1>3, <4>1
      <4>3. g[T] = f[Pick(T)] + g[T \ {Pick(T)}]
        BY <1>1, <3>2 DEF IsSum
      <4>4. MaxLong \in Nat
        BY CountingAssumption DEF Counting!CountsAssumption
      <4>5. g[T \ {Pick(T)}] <= MaxLong /\ g[T] \in Counting!Long
        BY <4>2, <4>3, <4>4 DEF Counting!Long
      <4>6. w[T \ {Pick(T)}] = g[T \ {Pick(T)}]
        BY <2>1, <4>1, <4>5
      <4>7. w[T] = Counting!Wrap(f[Pick(T)] + w[T \ {Pick(T)}])
        BY <1>2, <3>2 DEF IsLongSum
      <4> QED
        BY <4>3, <4>5, <4>6, <4>7, WrapKeepsLongs
    <3> QED
      BY <3>1, <3>2
  <2> HIDE DEF P
  <2>2. SUBSET S \subseteq P
    BY <2>1, SubsetInduction
  <2> QED
    BY <2>2 DEF P
<1> QED
  BY <1>1, <1>2, <1>3, <1>4, <1>5

----------------------------------------------------------------------------
(* CountsInv *)

\* The constants, as they are needed.
LEMMA CountsConstants ==
    /\ MaxLong \in Nat /\ Starts \subseteq Counting!Long /\ IsFiniteSet(Option)
    /\ Counting!Long = -(MaxLong + 1) .. MaxLong
  BY CountingAssumption DEF Counting!CountsAssumption, Counting!Long, Counting!IsFiniteSet, IsFiniteSet

\* CountsInv, with the natural numbers that the counts are.
CountsFit ==
    /\ voters \in Counting!Long /\ cast \in Nat
    /\ results \in [Option -> Nat \cap Counting!Long]
    /\ started \in [Option -> Counting!Long]
    /\ voters # 0 => Counting!Exact(results) <= voters
    /\ Counting!Exact(results) = Counting!Exact(started) + cast

\* The invariant, as a predicate of the state.
LEMMA CountsInvIs == CountsInv <=> CountsFit
<1>1. results \in [Option -> Counting!Long] /\ (\A c \in Option : results[c] >= 0)
      <=> results \in [Option -> Nat \cap Counting!Long]
  BY CountsConstants
<1> QED
  BY <1>1 DEF CountsInv, Counting!CountsInv, Counting!CountsTypeOK, Counting!WithinVoters,
              Counting!EveryVoteCounts, CountsFit

\* At first there is no election, and no vote.
LEMMA CountsInitially == Counting!Init => CountsInv
<1> SUFFICES ASSUME Counting!Init
             PROVE  CountsInv
  OBVIOUS
<1>1. voters = 0 /\ cast = 0 /\ results = [c \in Option |-> 0] /\ started = results
  BY DEF Counting!Init
<1>2. results \in [Option -> Nat \cap Counting!Long] /\ started \in [Option -> Counting!Long]
  BY <1>1, CountsConstants
<1>3. results \in [Option -> Nat]
  BY <1>2
<1>4. Counting!Exact(results) \in Nat
  BY <1>3, CountsConstants, SumsOfNaturals
<1>5. Counting!Exact(results) = Counting!Exact(started) + cast
  BY <1>1, <1>4
<1>6. voters \in Counting!Long /\ cast \in Nat
  BY <1>1, CountsConstants
<1> QED
  BY <1>1, <1>2, <1>5, <1>6, CountsInvIs DEF CountsFit

\* The counts that an Election is created with are within the limit.
LEMMA CreatedWithin ==
    ASSUME Counting!StartsAddUp, NEW limit \in Counting!Long, NEW listed \in SUBSET Option,
           NEW r \in [listed -> Starts], Counting!Create(limit, r)
    PROVE  CountsInv'
<1>1. voters' = limit /\ limit > 1 /\ cast' = 0 /\ started' = results'
      /\ results' = [c \in Option |-> IF c \in listed THEN r[c] ELSE 0]
      /\ Counting!LongSum(r) <= limit /\ (\A c \in listed : r[c] >= 0)
  <2>1. DOMAIN r = listed
    OBVIOUS
  <2>2. voters' = limit /\ limit > 1 /\ cast' = 0 /\ started' = results'
    BY DEF Counting!Create
  <2>3. results' = [c \in Option |-> IF c \in listed THEN r[c] ELSE 0]
    BY <2>1, Zenon DEF Counting!Create
  <2>4. Counting!LongSum(r) <= limit /\ (\A c \in listed : r[c] >= 0)
    BY <2>1 DEF Counting!Create, Counting!checkResults
  <2> QED
    BY <2>2, <2>3, <2>4, Zenon
<1>2. r \in [listed -> Starts \cap Nat]
  <2>1. \A c \in listed : r[c] >= 0
    BY <1>1, Zenon
  <2>2. Starts \subseteq Int
    BY CountsConstants
  <2>3. \A c \in listed : r[c] \in Starts \cap Nat
    <3> TAKE c \in listed
    <3>1. PICK n \in Int : n = r[c] /\ n \in Starts
      BY <2>2
    <3>2. n >= 0
      BY <2>1, <3>1
    <3> QED
      BY <3>1, <3>2
  <2> QED
    BY <2>3
<1>3. Counting!Exact(r) \in Counting!Long
  BY <1>2 DEF Counting!StartsAddUp
<1>4. r \in [listed -> Nat] /\ IsFiniteSet(listed)
  BY <1>2, CountsConstants, FS_Subset
<1>5. Counting!Exact(r) \in Nat /\ Counting!Exact(r) <= limit
  <2>1. Counting!Exact(r) \in Nat /\ Counting!Exact(r) <= MaxLong
    BY <1>3, <1>4, CountsConstants, SumsOfNaturals
  <2>2. Counting!LongSum(r) = Counting!Exact(r)
    BY <1>4, <2>1, SumsOfNaturals
  <2> QED
    BY <1>1, <2>1, <2>2
<1>6. r \in [listed -> Int]
  BY <1>4
<1>7. Counting!Exact(results') = Counting!Exact(r)
  BY <1>1, <1>6, CountsConstants, ExactOfPadded
<1>8. results' \in [Option -> Nat \cap Counting!Long] /\ started' \in [Option -> Counting!Long]
  BY <1>1, <1>2, CountsConstants
<1>9. Counting!Exact(started') + cast' = Counting!Exact(r)
  BY <1>1, <1>5, <1>7
<1>10. CountsFit'
  <2>1. voters' \in Counting!Long /\ cast' \in Nat
    BY <1>1
  <2>2. voters' # 0 => Counting!Exact(results') <= voters'
    BY <1>1, <1>5, <1>7
  <2>3. Counting!Exact(results') = Counting!Exact(started') + cast'
    BY <1>7, <1>9, Zenon
  <2> QED
    BY <1>8, <2>1, <2>2, <2>3 DEF CountsFit
<1> QED
  BY <1>10, CountsInvIs, PTL

\* A vote that is let in is the last at most.
LEMMA CastWithin ==
    ASSUME CountsInv, NEW c \in Option, Counting!CastVote(c)
    PROVE  CountsInv'
<1>1. /\ voters \in Counting!Long /\ cast \in Nat
      /\ results \in [Option -> Nat \cap Counting!Long] /\ started \in [Option -> Counting!Long]
      /\ Counting!Exact(results) = Counting!Exact(started) + cast
      /\ voters # 0 => Counting!Exact(results) <= voters
  BY CountsInvIs DEF CountsFit
<1>2. /\ voters # 0 /\ Counting!LongSum(results) < voters
      /\ results' = [results EXCEPT ![c] = Counting!Wrap(results[c] + 1)]
      /\ cast' = cast + 1 /\ voters' = voters /\ started' = started
  BY DEF Counting!CastVote, Counting!checkBallot
<1>3. results \in [Option -> Nat] /\ results \in [Option -> Int]
  BY <1>1
<1>4. voters \in Int /\ voters <= MaxLong /\ MaxLong \in Nat
  BY <1>1, CountsConstants
<1>5. /\ Counting!Exact(results) \in Nat /\ results[c] \in Nat
      /\ results[c] <= Counting!Exact(results) /\ Counting!Exact(results) < voters
  <2>1. /\ Counting!Exact(results) \in Nat /\ results[c] <= Counting!Exact(results)
        /\ Counting!Exact(results) <= MaxLong => Counting!LongSum(results) = Counting!Exact(results)
    BY <1>3, CountsConstants, SumsOfNaturals
  <2>2. Counting!Exact(results) <= MaxLong
    BY <1>1, <1>2, <1>4, <2>1
  <2> QED
    BY <1>2, <1>3, <2>1, <2>2
<1>6. results[c] + 1 \in Nat \cap Counting!Long
  BY <1>4, <1>5, CountsConstants
<1>7. results' = [results EXCEPT ![c] = results[c] + 1]
  BY <1>2, <1>6, WrapKeepsLongs
<1>8. Counting!Exact(results') = Counting!Exact(results) + 1
  BY <1>3, <1>7, CountsConstants, ExactOfOneMore
<1>9. results' \in [Option -> Nat \cap Counting!Long]
  BY <1>1, <1>6, <1>7
<1>10. Counting!Exact(results') <= voters'
  BY <1>2, <1>4, <1>5, <1>8
<1>11. Counting!Exact(results') = Counting!Exact(started') + cast'
  <2>1. Counting!Exact(started') = Counting!Exact(started)
    BY <1>2
  <2>2. started \in [Option -> Int]
    BY <1>1, CountsConstants
  <2>3. Counting!Exact(started) \in Int
    <3>1. PICK g : IsSum(g, Option, started) /\ Counting!Exact(started) = g[Option]
      BY <2>2, CountsConstants, ExactIsSum
    <3> QED
      BY <3>1 DEF IsSum
  <2> QED
    BY <1>1, <1>2, <1>8, <2>1, <2>3
<1>12. CountsFit'
  <2>1. voters' \in Counting!Long /\ cast' \in Nat /\ started' \in [Option -> Counting!Long]
    BY <1>1, <1>2
  <2> QED
    BY <1>9, <1>10, <1>11, <2>1 DEF CountsFit
<1> QED
  BY <1>12, CountsInvIs, PTL

\* For all longs, choices, limits and starting counts that add up to a long: there are
\* never more votes than voters, and no vote is lost to an overflow.
THEOREM CountsAddUp ==
    ASSUME Counting!StartsAddUp
    PROVE  Counting!Spec => []CountsInv
<1>1. CountsInv /\ [Counting!Next]_(Counting!vars) => CountsInv'
  <2> SUFFICES ASSUME CountsInv, [Counting!Next]_(Counting!vars)
               PROVE  CountsInv'
    OBVIOUS
  <2>1. CASE UNCHANGED Counting!vars
    BY <2>1 DEF Counting!vars, CountsInv, Counting!CountsInv, Counting!CountsTypeOK,
       Counting!WithinVoters, Counting!EveryVoteCounts
  <2>2. CASE Counting!Next
    BY <2>2, CreatedWithin, CastWithin DEF Counting!Next
  <2> QED
    BY <2>1, <2>2
<1> QED
  BY <1>1, CountsInitially, PTL DEF Counting!Spec

=============================================================================
