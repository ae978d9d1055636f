------------------------- MODULE PublicationProofs -------------------------
(***************************************************************************)
(* Proofs about Publication, for any stores, queues, publishers, faults    *)
(* and power losses: type correctness, the three safety invariants of its  *)
(* run, and that the stores implement ContentStore.                        *)
(***************************************************************************)
EXTENDS Publication, TLAPS

-----------------------------------------------------------------------------
(* The inductive invariant *)

\* Each step belongs to some of the ways to publish.
Controlled(p) ==
    /\ pc[p] \in {"write", "sync", "flush"} => ~InPlace(Job(p))
    /\ pc[p] = "sync" => Shape[Job(p)].by = "rename"
    /\ pc[p] \in {"fill", "remove"} => InPlace(Job(p))

\* A store has its directory from before it writes, ...
Based(p) ==
    pc[p] \in {"write", "sync", "publish"} => directory[Home(Job(p))] # "absent"

\* ... and what stands is in one.
Housed == \A a \in Address : Visible(a) => directory[Home(a)] # "absent"

\* What p is about to publish is whole, and on disk if the store is careful.
Prepared(p) ==
    /\ pc[p] = "write" => stage[p] \in {{}, {"payload"}}
    /\ pc[p] = "sync" => stage[p] = Parts
    /\ pc[p] = "publish" /\ ~InPlace(Job(p)) =>
        /\ stage[p] = Parts
        /\ Careful(Job(p)) => forced[p] = Parts
    /\ pc[p] = "publish" /\ InPlace(Job(p)) => forced[p] = {}

\* A directory that is filled in place has one process in it, the one that
\* created it, and none of it is on disk.
Filling(p) == InPlace(Job(p)) /\ pc[p] \in {"fill", "verify", "accept", "remove"}
Filled(p) == Filling(p) => Visible(Job(p)) /\ loose[Job(p)] = Parts
OneFiller ==
    \A p, q \in Publisher : Filling(p) /\ Filling(q) /\ Job(p) = Job(q) => p = q

\* What p goes on from is there.
Accepting(p) ==
    /\ pc[p] = "accept" => Whole(Job(p))
    /\ pc[p] = "flush" => Visible(Job(p))
    /\ pc[p] \in {"verify", "accept"} =>
        \/ InPlace(Job(p))
        \/ Shape[Job(p)].reuse # {}
        \/ Shape[Job(p)].flush # "raise"
        \/ ~Careful(Job(p))
        \/ OnDisk(Job(p)) /\ Visible(Job(p))

\* The addresses before the position of p were returned to it, and while it
\* runs they are there; it begins with the first.
Behind(p) ==
    /\ pc[p] = "idle" => at[p] = 1
    /\ \A j \in DOMAIN queue : j < at[p] =>
        /\ queue[j] \in returned
        /\ pc[p] \in Running => Whole(queue[j]) \/ InPlace(queue[j])

CarefulOnDisk == \A a \in Address : Careful(a) /\ ~InPlace(a) => loose[a] = {}
SettledVisible == \A a \in settled : Visible(a)
InOrder == \A a \in Listed : Visible(a) => Earlier(a) \subseteq returned

\* What was returned is there, or lost for the reason that the history names.
Returned(a) ==
    /\ a \notin hasty \cup newly => Durable(a) /\ Whole(a)
    /\ losses = 0 =>
        /\ Whole(a)
        /\ \A p \in Publisher : Job(p) = a => ~Filling(p)
    /\ a \in hasty =>
        \/ Shape[a].reuse # {}
        \/ Shape[a].flush # "raise"
        \/ ~Careful(a)

IInv ==
    /\ TypeOK
    /\ VisibleIsWhole
    /\ OneFiller
    /\ CarefulOnDisk
    /\ SettledVisible
    /\ InOrder
    /\ Housed
    /\ \A p \in Publisher :
        /\ Controlled(p) /\ Based(p) /\ Prepared(p)
        /\ Filled(p) /\ Accepting(p) /\ Behind(p)
    /\ \A a \in returned : Returned(a)

-----------------------------------------------------------------------------
(* Types *)

\* The address that a publisher has come to.
LEMMA JobFacts ==
    ASSUME TypeOK, NEW p \in Publisher
    PROVE  /\ queue \in Seq(Address)
           /\ Len(queue) \in Nat
           /\ DOMAIN queue = 1..Len(queue)
           /\ at[p] \in DOMAIN queue
           /\ Job(p) \in Address
           /\ \A i, j \in DOMAIN queue : queue[i] = queue[j] => i = j
<1>1. queue \in Seq(Address) \ {<<>>} /\ \A i, j \in DOMAIN queue : i # j => queue[i] # queue[j]
  BY PublicationAssumption DEF TypeOK
<1>2. at[p] \in DOMAIN queue
  BY DEF TypeOK
<1>3. QED
  BY <1>1, <1>2 DEF Job

\* The queue names addresses, ...
LEMMA ListedFacts ==
    ASSUME TypeOK
    PROVE  Listed \subseteq Address
<1>1. queue \in Seq(Address)
  BY PublicationAssumption DEF TypeOK
<1>2. QED
  BY <1>1 DEF Listed

\* ... and those before a publisher's position come before its address.
LEMMA EarlierFacts ==
    ASSUME TypeOK, NEW p \in Publisher
    PROVE  Earlier(Job(p)) = {queue[i] : i \in {j \in DOMAIN queue : j < at[p]}}
<1>1. ASSUME NEW j \in DOMAIN queue
      PROVE  (\E k \in DOMAIN queue : j < k /\ queue[k] = Job(p)) <=> j < at[p]
  BY JobFacts DEF Job
<1>2. {j \in DOMAIN queue : \E k \in DOMAIN queue : j < k /\ queue[k] = Job(p)}
        = {j \in DOMAIN queue : j < at[p]}
  BY <1>1
<1>3. QED
  BY <1>2 DEF Earlier

\* Where an address is published.
LEMMA HomeFacts == \A a \in Address : Home(a) \in Directories
BY DEF Directories

\* Parts of a content are not what is absent.
LEMMA PartFacts ==
    /\ Absent \notin SUBSET Parts
    /\ Absent # {} /\ Parts # {} /\ {"payload"} # Parts /\ {"payload"} # Absent
    /\ Parts # Absent
    /\ Extended({}) = {"payload"} /\ Extended({"payload"}) = Parts
    /\ \A parts : Extended(parts) \in SUBSET Parts
BY DEF Absent, Parts, Extended

\* What can be under a name.
LEMMA ContentFacts ==
    /\ Absent \in Contents
    /\ \A parts \in SUBSET Parts : parts \in Contents /\ parts # Absent
    /\ \A content \in Contents : content # Absent => content \in SUBSET Parts
    /\ {} \in Contents /\ Parts \in Contents
    /\ \A part \in Parts : {part} \in Contents /\ {part} # Absent
<1>1. ASSUME NEW content
      PROVE  content \in Contents <=> content \in SUBSET Parts \/ content = Absent
  <2> DEFINE Sets == SUBSET Parts
  <2> HIDE DEF Sets
  <2>1. content \in {Absent} \cup Sets <=> content \in Sets \/ content = Absent
    OBVIOUS
  <2>2. QED
    BY Zenon, <2>1 DEF Contents, Sets
<1>2. {} \in SUBSET Parts /\ Parts \in SUBSET Parts
  OBVIOUS
<1>3. \A part \in Parts : {part} \in SUBSET Parts
  OBVIOUS
<1>4. QED
  BY <1>1, <1>2, <1>3, PartFacts

\* What the store of an address is like.
LEMMA ShapeFacts ==
    ASSUME NEW a \in Address
    PROVE  /\ Shape[a].by \in {"rename", "link", "fill"}
           /\ Shape[a].reuse \subseteq {"before", "race"}
           /\ Shape[a].syncs \subseteq Parts
           /\ Shape[a].by = "link" => Shape[a].syncs = Parts
           /\ Shape[a].by = "fill" => Shape[a].reuse = {} /\ Shape[a].flush = "none"
           /\ Shape[a].flush \in {"none", "raise", "swallow"}
BY PublicationAssumption

\* The bounds are numbers.
LEMMA BoundFacts == MaxFaults \in Nat /\ MaxLosses \in Nat
BY PublicationAssumption

\* Giving a name other parts, or none, keeps the types.
LEMMA Updated ==
    ASSUME NEW S, NEW f \in [S -> Contents], NEW x \in S,
           NEW v \in Contents
    PROVE  [f EXCEPT ![x] = v] \in [S -> Contents]
OBVIOUS

LEMMA PartsUpdated ==
    ASSUME NEW S, NEW f \in [S -> SUBSET Parts], NEW x \in S, NEW v \in SUBSET Parts
    PROVE  [f EXCEPT ![x] = v] \in [S -> SUBSET Parts]
OBVIOUS

\* A step keeps the types if it keeps those of what it writes.
LEMMA KeepsType ==
    ASSUME TypeOK, NEW p \in Publisher, NEW step \in Steps, GoTo(p, step), UNCHANGED queue,
           at' \in [Publisher -> DOMAIN queue],
           stage' \in [Publisher -> Contents],
           forced' \in [Publisher -> SUBSET Parts],
           litter' \subseteq Address,
           entry' \in [Address -> Contents],
           loose' \in [Address -> SUBSET Parts],
           settled' \subseteq Address,
           directory' \in [Directories -> {"absent", "made", "anchored"}],
           returned' \subseteq Address, hasty' \subseteq returned', newly' \subseteq returned',
           faults' \in 0..MaxFaults, losses' = losses
    PROVE  TypeOK'
BY DEF TypeOK, GoTo

\* No step of a publisher leaves the types, ...
LEMMA StepType ==
    ASSUME TypeOK, NEW p \in Publisher,
           Call(p) \/ Step(p) \/ Fail(p) \/ FlushFails(p) \/ Kill(p)
    PROVE  TypeOK'
<1>0. /\ pc \in [Publisher -> Steps] /\ at \in [Publisher -> DOMAIN queue]
      /\ stage \in [Publisher -> Contents]
      /\ forced \in [Publisher -> SUBSET Parts]
      /\ litter \subseteq Address
      /\ entry \in [Address -> Contents]
      /\ loose \in [Address -> SUBSET Parts]
      /\ settled \subseteq Address
      /\ directory \in [Directories -> {"absent", "made", "anchored"}]
      /\ returned \subseteq Address /\ hasty \subseteq returned /\ newly \subseteq returned
      /\ faults \in 0..MaxFaults
      /\ Job(p) \in Address
      /\ {} \in Contents /\ Parts \in Contents
      /\ Absent \in Contents /\ {} \in SUBSET Parts /\ Parts \in SUBSET Parts
  BY JobFacts, ContentFacts DEF TypeOK
<1>a. /\ \A v \in Contents :
            [stage EXCEPT ![p] = v] \in [Publisher -> Contents]
      /\ \A v \in Contents :
            [entry EXCEPT ![Job(p)] = v] \in [Address -> Contents]
      /\ \A v \in SUBSET Parts : [forced EXCEPT ![p] = v] \in [Publisher -> SUBSET Parts]
      /\ \A v \in SUBSET Parts : [loose EXCEPT ![Job(p)] = v] \in [Address -> SUBSET Parts]
  BY <1>0, Updated, PartsUpdated
<1>b. ASSUME UNCHANGED <<queue, private, public, told, losses>>, NEW step \in Steps, GoTo(p, step),
             at' \in [Publisher -> DOMAIN queue], faults' \in 0..MaxFaults
      PROVE  TypeOK'
  BY <1>0, <1>b, KeepsType DEF private, public, told
<1>1. CASE Call(p)
  BY <1>0, <1>1, <1>b DEF Call, Stay, Steps, Running, counters
<1>2. CASE Check(p)
  <2>1. stage' \in {stage, [stage EXCEPT ![p] = {}]} /\ forced' = [forced EXCEPT ![p] = {}]
    BY <1>2 DEF Check
  <2>2. UNCHANGED <<queue, at, litter, entry, loose, settled, told, counters>>
    BY <1>2 DEF Check, Stay
  <2>3. GoTo(p, "abort") \/ GoTo(p, "verify") \/ GoTo(p, "write") \/ GoTo(p, "publish")
    BY <1>2 DEF Check
  <2>4. directory' \in [Directories -> {"absent", "made", "anchored"}]
    <3>1. directory' = directory \/ MakeDirectory(Job(p))
      BY <1>2 DEF Check
    <3>2. QED
      BY <1>0, <3>1 DEF MakeDirectory
  <2>5. QED
    BY <1>0, <1>a, <2>1, <2>2, <2>3, <2>4, KeepsType DEF told, counters, Steps, Running
<1>3. CASE Write(p)
  <2>1. \/ stage' = [stage EXCEPT ![p] = Parts] /\ forced' = [forced EXCEPT ![p] = Parts]
        \/ stage' = [stage EXCEPT ![p] = Extended(stage[p])] /\ forced' = forced
    BY <1>3 DEF Write
  <2>2. UNCHANGED <<queue, at, litter, public, told, counters>>
    BY <1>3 DEF Write, Stay
  <2>3. GoTo(p, "publish") \/ GoTo(p, "write") \/ GoTo(p, "sync")
    BY <1>3 DEF Write
  <2>4. Extended(stage[p]) \in Contents
    BY PartFacts, ContentFacts
  <2>5. stage' \in [Publisher -> Contents] /\ forced' \in [Publisher -> SUBSET Parts]
    BY <1>0, <1>a, <2>1, <2>4
  <2>6. QED
    BY <1>0, <2>2, <2>3, <2>5, KeepsType DEF public, told, counters, Steps, Running
<1>4. CASE SyncStage(p)
  <2>1. forced' \in [Publisher -> SUBSET Parts]
    BY <1>0, <1>4, <1>a, ShapeFacts DEF SyncStage
  <2>2. QED
    BY <1>0, <1>4, <2>1, KeepsType DEF SyncStage, Stay, public, told, counters, Steps, Running
<1>5. CASE Publish(p)
  <2>1. UNCHANGED <<queue, at, forced, litter, settled, directory, told, counters>>
    BY <1>5 DEF Publish, Stay
  <2>2. GoTo(p, "abort") \/ GoTo(p, "verify") \/ GoTo(p, "flush") \/ GoTo(p, "fill")
    BY <1>5 DEF Publish, AfterLostRace
  <2>3. entry' \in {entry, [entry EXCEPT ![Job(p)] = {}], [entry EXCEPT ![Job(p)] = stage[p]]}
    BY <1>5 DEF Publish
  <2>4. loose' \in {loose, [loose EXCEPT ![Job(p)] = Parts \ forced[p]]}
    BY <1>5 DEF Publish
  <2>5. stage' \in {stage, [stage EXCEPT ![p] = Absent]}
    BY <1>5 DEF Publish
  <2>6. stage[p] \in Contents /\ Parts \ forced[p] \in SUBSET Parts
    BY <1>0
  <2>7. /\ entry' \in [Address -> Contents]
        /\ loose' \in [Address -> SUBSET Parts]
        /\ stage' \in [Publisher -> Contents]
    <3>1. entry' \in [Address -> Contents]
      BY <1>0, <1>a, <2>3, <2>6
    <3>2. loose' \in [Address -> SUBSET Parts]
      BY <1>0, <1>a, <2>4, <2>6
    <3>3. stage' \in [Publisher -> Contents]
      BY <1>0, <1>a, <2>5
    <3>4. QED
      BY <3>1, <3>2, <3>3
  <2>8. QED
    BY <1>0, <2>1, <2>2, <2>7, KeepsType DEF told, counters, Steps, Running
<1>6. CASE Fill(p)
  <2>1. entry' \in [Address -> Contents]
    BY <1>6, <1>a, PartFacts, ContentFacts DEF Fill
  <2>2. GoTo(p, "fill") \/ GoTo(p, "verify")
    BY <1>6 DEF Fill
  <2>3. QED
    BY <1>0, <1>6, <2>1, <2>2, KeepsType DEF Fill, Stay, private, told, counters, Steps, Running
<1>7. CASE Flush(p)
  <2>1. settled' \subseteq Address
    BY <1>0, <1>7 DEF Flush
  <2>2. QED
    BY <1>0, <1>7, <2>1, KeepsType DEF Flush, Stay, private, told, counters, Steps, Running
<1>8. CASE Verify(p)
  <2>1. GoTo(p, "accept") \/ GoTo(p, "remove") \/ GoTo(p, "abort")
    BY <1>8 DEF Verify
  <2>2. QED
    BY <1>0, <1>8, <1>b, <2>1 DEF Verify, Stay, counters, Steps, Running
<1>9. CASE Accept(p)
  <2>1. UNCHANGED <<queue, litter, public, counters>>
    BY <1>9 DEF Accept
  <2>2. GoTo(p, "done") \/ GoTo(p, "check")
    BY <1>9 DEF Accept, Onward
  <2>3. at' \in [Publisher -> DOMAIN queue]
    BY <1>0, <1>9, JobFacts DEF Accept, Onward
  <2>4. stage' = [stage EXCEPT ![p] = Absent] /\ forced' = [forced EXCEPT ![p] = {}]
    BY <1>9 DEF Accept
  <2>5. /\ returned' = returned \cup {Job(p)}
        /\ hasty' \subseteq hasty \cup {Job(p)} /\ newly' \subseteq newly \cup {Job(p)}
    BY <1>9 DEF Accept
  <2>6. QED
    BY <1>0, <1>a, <2>1, <2>2, <2>3, <2>4, <2>5, KeepsType DEF public, counters, Steps, Running
<1>10. CASE Remove(p)
  <2>1. UNCHANGED <<queue, at, private, directory, told, counters>>
    BY <1>10 DEF Remove, Stay
  <2>2. /\ \/ entry' = [entry EXCEPT ![Job(p)] = Absent]
           \/ \E part \in Parts : entry' = [entry EXCEPT ![Job(p)] = {part}]
        /\ settled' \subseteq settled
        /\ loose' \in {loose, [loose EXCEPT ![Job(p)] = {}]}
    BY <1>10 DEF Remove
  <2>3. \A part \in Parts : {part} \in Contents
    BY ContentFacts
  <2>4. entry' \in [Address -> Contents]
    BY <1>0, <1>a, <2>2, <2>3
  <2>5. GoTo(p, "abort") \/ GoTo(p, "remove")
    <3>1. pc' = pc /\ pc[p] = "remove" => GoTo(p, "remove")
      BY <1>0 DEF GoTo
    <3>2. QED
      BY <1>10, <3>1 DEF Remove
  <2>6. loose' \in [Address -> SUBSET Parts] /\ settled' \subseteq Address
    BY <1>0, <2>2
  <2>7. QED
    BY <1>0, <2>1, <2>4, <2>5, <2>6, KeepsType DEF private, told, counters, Steps, Running
<1>11. CASE Abort(p)
  <2>1. stage' = [stage EXCEPT ![p] = Absent] /\ forced' = [forced EXCEPT ![p] = {}]
        /\ GoTo(p, "idle") /\ UNCHANGED <<queue, litter, public, told, counters>>
    BY <1>11 DEF Abort
  <2>2. at' \in [Publisher -> DOMAIN queue]
    BY <1>0, <1>11, JobFacts DEF Abort
  <2>3. QED
    BY <1>0, <1>a, <2>1, <2>2, KeepsType DEF public, told, counters, Steps
<1>12. CASE Fail(p)
  <2>1. (GoTo(p, "abort") \/ GoTo(p, "remove")) /\ faults' \in 0..MaxFaults
        /\ UNCHANGED <<queue, at, private, public, told>>
    BY <1>0, <1>12, BoundFacts DEF Fail, Stay
  <2>2. QED
    BY <1>0, <1>12, <1>b, <2>1 DEF Fail, Steps, Running
<1>13. CASE FlushFails(p)
  <2>1. (GoTo(p, "abort") \/ GoTo(p, "verify")) /\ faults' \in 0..MaxFaults
        /\ UNCHANGED <<queue, at, private, public, told>>
    BY <1>0, <1>13, BoundFacts DEF FlushFails, Stay
  <2>2. QED
    BY <1>0, <1>13, <1>b, <2>1 DEF FlushFails, Steps, Running
<1>14. CASE Kill(p)
  <2>1. stage' = [stage EXCEPT ![p] = Absent] /\ forced' = [forced EXCEPT ![p] = {}]
        /\ litter' \subseteq litter \cup {Job(p)}
        /\ GoTo(p, "idle") /\ UNCHANGED <<queue, public, told, losses>>
    BY <1>14 DEF Kill, Halt
  <2>2. faults' \in 0..MaxFaults /\ at' \in [Publisher -> DOMAIN queue]
    BY <1>0, <1>14, JobFacts, BoundFacts DEF Kill
  <2>3. QED
    BY <1>0, <1>a, <2>1, <2>2, KeepsType DEF public, told, Steps
<1>15. QED
  BY <1>1, <1>2, <1>3, <1>4, <1>5, <1>6, <1>7, <1>8, <1>9, <1>10, <1>11, <1>12, <1>13,
     <1>14 DEF Step

\* What a power loss leaves of an address.
LEMMA LossFacts ==
    ASSUME TypeOK, PowerLoss, NEW a \in Address
    PROVE  /\ entry'[a] \in Contents /\ loose'[a] = {}
           /\ a \in settled' <=> Visible(a)'
           /\ Visible(a)' => Visible(a)
           /\ Visible(a)' /\ loose[a] = {} => entry'[a] = entry[a]
           /\ Whole(a)' => Whole(a)
           /\ Durable(a) /\ Visible(a) => Visible(a)'
           /\ Visible(a)' /\ directory[Home(a)] # "absent" => Anchored(a)'
           /\ Anchored(a) => Anchored(a)'
<1>1. PICK lost \in SUBSET {d \in Directories : directory[d] = "made"},
           gone \in SUBSET {b \in Address : Visible(b) /\ b \notin settled},
           torn \in SUBSET {b \in Address : loose[b] # {}}, part \in SUBSET Parts :
        LET left == {b \in Address : Visible(b) /\ b \notin gone /\ Home(b) \notin lost}
        IN /\ entry' = [b \in Address |->
                            IF b \notin left THEN Absent
                            ELSE IF b \in torn THEN entry[b] \ (loose[b] \cap part)
                            ELSE entry[b]]
           /\ settled' = left
           /\ directory' = [d \in Directories |->
                                IF d \in lost THEN "absent"
                                ELSE IF directory[d] = "made" THEN "anchored"
                                ELSE directory[d]]
  BY Zenon DEF PowerLoss
<1> DEFINE stays == Visible(a) /\ a \notin gone /\ Home(a) \notin lost
<1>2. /\ entry'[a] = IF ~stays THEN Absent
                     ELSE IF a \in torn THEN entry[a] \ (loose[a] \cap part)
                     ELSE entry[a]
      /\ a \in settled' <=> stays
  BY <1>1
<1>a. /\ Home(a) \in lost => directory[Home(a)] = "made"
      /\ Home(a) \notin lost => directory'[Home(a)] = IF directory[Home(a)] = "made" THEN "anchored"
                                                     ELSE directory[Home(a)]
      /\ directory[Home(a)] \in {"absent", "made", "anchored"}
  BY <1>1, HomeFacts DEF TypeOK
<1>b. /\ Anchored(a) => Home(a) \notin lost /\ Anchored(a)'
      /\ Home(a) \notin lost /\ directory[Home(a)] # "absent" => Anchored(a)'
  BY <1>a DEF Anchored, Home
<1>3. entry[a] \in Contents /\ loose'[a] = {}
  BY DEF TypeOK, PowerLoss
<1>4. ASSUME Visible(a)
      PROVE  /\ entry[a] \in SUBSET Parts /\ entry[a] # Absent
             /\ entry[a] \ (loose[a] \cap part) \in SUBSET Parts
             /\ entry[a] \ (loose[a] \cap part) = Parts => entry[a] = Parts
  <2>1. entry[a] \in SUBSET Parts /\ entry[a] # Absent
    BY <1>3, <1>4, ContentFacts DEF Visible
  <2>2. QED
    BY <2>1
<1>5. a \in torn => loose[a] # {}
  BY <1>1
<1>6. Durable(a) /\ Visible(a) => stays
  BY <1>1, <1>b DEF Durable, OnDisk
<1>7. CASE ~stays
  <2>1. entry'[a] = Absent /\ a \notin settled'
    BY <1>2, <1>7
  <2>2. ~Visible(a)' /\ ~Whole(a)'
    BY <2>1, PartFacts DEF Visible, Whole
  <2>3. QED
    BY <1>3, <1>6, <1>7, <1>b, <2>1, <2>2, ContentFacts
<1>8. CASE stays /\ a \in torn
  <2>1. entry'[a] = entry[a] \ (loose[a] \cap part) /\ a \in settled'
    BY <1>2, <1>8
  <2>2. QED
    BY <1>3, <1>4, <1>5, <1>8, <1>b, <2>1, ContentFacts DEF Visible, Whole
<1>9. CASE stays /\ a \notin torn
  <2>1. entry'[a] = entry[a] /\ a \in settled'
    BY <1>2, <1>9
  <2>2. QED
    BY <1>3, <1>4, <1>9, <1>b, <2>1, ContentFacts DEF Visible, Whole
<1>10. QED
  BY <1>7, <1>8, <1>9

\* ... and no power loss does.
LEMMA LossType == ASSUME TypeOK, PowerLoss PROVE TypeOK'
<1>1. PICK lost \in SUBSET {d \in Directories : directory[d] = "made"},
           gone \in SUBSET {a \in Address : Visible(a) /\ a \notin settled},
           torn \in SUBSET {a \in Address : loose[a] # {}}, part \in SUBSET Parts :
        LET left == {a \in Address : Visible(a) /\ a \notin gone /\ Home(a) \notin lost}
        IN /\ entry' = [a \in Address |->
                            IF a \notin left THEN Absent
                            ELSE IF a \in torn THEN entry[a] \ (loose[a] \cap part)
                            ELSE entry[a]]
           /\ settled' = left
           /\ directory' = [d \in Directories |->
                                IF d \in lost THEN "absent"
                                ELSE IF directory[d] = "made" THEN "anchored"
                                ELSE directory[d]]
           /\ litter' \in SUBSET {a \in litter \cup {Job(p) : p \in {q \in Publisher : Litters(q)}} :
                                    Home(a) \notin lost}
  BY Zenon DEF PowerLoss
<1>2. entry' \in [Address -> Contents] /\ loose' \in [Address -> SUBSET Parts]
  <2>1. loose' = [a \in Address |-> {}]
    BY DEF PowerLoss
  <2>2. \A a \in Address : entry'[a] \in Contents
    BY LossFacts
  <2>3. entry' = [a \in Address |-> entry'[a]]
    BY <1>1
  <2>4. QED
    BY <2>1, <2>2, <2>3
<1>3. settled' \subseteq Address
  BY <1>1
<1>4. directory' \in [Directories -> {"absent", "made", "anchored"}]
  BY <1>1 DEF TypeOK
<1>5. stage' \in [Publisher -> Contents] /\ forced' \in [Publisher -> SUBSET Parts]
  <2>1. stage' = [p \in Publisher |-> Absent] /\ forced' = [p \in Publisher |-> {}]
    BY DEF PowerLoss
  <2>2. QED
    BY <2>1, ContentFacts
<1>6. litter' \subseteq Address
  BY <1>1, JobFacts DEF TypeOK
<1>7. pc' \in [Publisher -> Steps] /\ at' \in [Publisher -> DOMAIN queue]
  <2>1. 1 \in DOMAIN queue \/ Publisher = {}
    BY JobFacts
  <2>2. QED
    BY <2>1 DEF TypeOK, PowerLoss, Steps
<1>8. losses' \in 0..MaxLosses
  BY BoundFacts DEF TypeOK, PowerLoss
<1>9. UNCHANGED <<queue, returned, hasty, newly, faults>>
  BY DEF PowerLoss, told
<1>10. QED
  BY <1>2, <1>3, <1>4, <1>5, <1>6, <1>7, <1>8, <1>9 DEF TypeOK

-----------------------------------------------------------------------------
(* What a publisher's step leaves alone *)

Act(p) == Call(p) \/ Step(p) \/ Fail(p) \/ FlushFails(p) \/ Kill(p)

Same(a) ==
    /\ entry'[a] = entry[a] /\ loose'[a] = loose[a]
    /\ a \in settled => a \in settled'

\* The addresses, but for four actions; the directories, but for one, which
\* makes what is not there; the histories, but for one; and what the other
\* publishers do.
LEMMA Untouched ==
    ASSUME TypeOK, NEW p \in Publisher, Act(p)
    PROVE  /\ queue' = queue /\ losses' = losses
           /\ UNCHANGED <<entry, loose, settled>> \/ Publish(p) \/ Fill(p) \/ Flush(p) \/ Remove(p)
           /\ \A d \in Directories : directory[d] # "absent" => directory'[d] = directory[d]
           /\ UNCHANGED told \/ Accept(p)
           /\ \A q \in Publisher \ {p} :
                pc'[q] = pc[q] /\ at'[q] = at[q] /\ stage'[q] = stage[q] /\ forced'[q] = forced[q]
           /\ Accept(p) \/ Abort(p) \/ Kill(p) \/ (at' = at /\ (Call(p) \/ pc[p] \in Running))
<1>1. queue' = queue /\ losses' = losses
  BY DEF Act, Step, Call, Check, Write, SyncStage, Publish, Fill, Flush, Verify, Accept, Remove,
     Abort, Fail, FlushFails, Kill, Stay, told, counters
<1>2. UNCHANGED <<entry, loose, settled>> \/ Publish(p) \/ Fill(p) \/ Flush(p) \/ Remove(p)
  BY DEF Act, Step, Call, Check, Write, SyncStage, Verify, Accept, Abort, Fail, FlushFails, Kill,
     public
<1>3. UNCHANGED told \/ Accept(p)
  BY DEF Act, Step, Call, Check, Write, SyncStage, Publish, Fill, Flush, Verify, Remove, Abort,
     Fail, FlushFails, Kill
<1>4. Accept(p) \/ Abort(p) \/ Kill(p) \/ (at' = at /\ (Call(p) \/ pc[p] \in Running))
  BY DEF Act, Step, Call, Check, Write, SyncStage, Publish, Fill, Flush, Verify, Remove,
     Fail, FlushFails, Stay, Running
<1>5. ASSUME NEW q \in Publisher \ {p}
      PROVE  pc'[q] = pc[q] /\ at'[q] = at[q]
  <2>1. at'[q] = at[q]
    <3>1. CASE Abort(p) \/ Kill(p)
      BY <3>1 DEF TypeOK, Abort, Kill
    <3>2. CASE Accept(p)
      BY <3>2 DEF TypeOK, Accept, Onward
    <3>3. QED
      BY <1>4, <3>1, <3>2
  <2>2. pc' = pc \/ \E step : GoTo(p, step)
    BY DEF Act, Step, Call, Check, Write, SyncStage, Publish, Fill, Flush, Verify, Accept, Onward,
       Remove, Abort, Fail, FlushFails, Kill
  <2>3. QED
    BY <2>1, <2>2 DEF TypeOK, GoTo
<1>6. ASSUME NEW q \in Publisher \ {p}
      PROVE  stage'[q] = stage[q] /\ forced'[q] = forced[q]
  <2>1. stage' = stage \/ \E v : stage' = [stage EXCEPT ![p] = v]
    BY DEF Act, Step, Call, Check, Write, SyncStage, Publish, Fill, Flush, Verify, Accept, Remove,
       Abort, Fail, FlushFails, Kill, Halt, private
  <2>2. forced' = forced \/ \E v : forced' = [forced EXCEPT ![p] = v]
    BY DEF Act, Step, Call, Check, Write, SyncStage, Publish, Fill, Flush, Verify, Accept, Remove,
       Abort, Fail, FlushFails, Kill, Halt, private
  <2>3. QED
    BY <2>1, <2>2 DEF TypeOK
<1>7. ASSUME NEW d \in Directories, directory[d] # "absent" PROVE directory'[d] = directory[d]
  <2>1. directory' = directory \/ MakeDirectory(Job(p))
    BY DEF Act, Step, Call, Check, Write, SyncStage, Publish, Fill, Flush, Verify, Accept, Remove,
       Abort, Fail, FlushFails, Kill, public
  <2>2. QED
    BY <1>7, <2>1 DEF TypeOK, MakeDirectory
<1>8. QED
  BY <1>1, <1>2, <1>3, <1>4, <1>5, <1>6, <1>7

\* What is on disk stays there, and so does what is in a directory.
LEMMA Grounded ==
    ASSUME TypeOK, NEW p \in Publisher, Act(p), NEW a \in Address
    PROVE  /\ Anchored(a) => Anchored(a)'
           /\ directory[Home(a)] # "absent" => directory'[Home(a)] # "absent"
BY HomeFacts, Untouched DEF Anchored, Home

\* An address that can be seen is left alone but by the one that fills it.
LEMMA Steady ==
    ASSUME IInv, NEW p \in Publisher, Act(p), NEW a \in Address
    PROVE  /\ a # Job(p) => Same(a)
           /\ Visible(a) /\ ~(Filling(p) /\ a = Job(p)) => Same(a)
           /\ ~Visible(a) /\ Visible(a)' => Publish(p) /\ a = Job(p)
<1>1. TypeOK /\ Controlled(p) /\ Filled(p) /\ Job(p) \in Address
  BY JobFacts DEF IInv
<1>2. CASE UNCHANGED <<entry, loose, settled>>
  BY <1>2 DEF Same, Visible
<1>3. CASE Publish(p)
  <2>1. settled' = settled
    BY <1>3 DEF Publish
  <2>2. a # Job(p) => entry'[a] = entry[a] /\ loose'[a] = loose[a]
    BY <1>1, <1>3 DEF TypeOK, Publish
  <2>3. Visible(Job(p)) => UNCHANGED <<entry, loose>>
    BY <1>3 DEF Publish, Taken
  <2>4. QED
    BY <1>3, <2>1, <2>2, <2>3 DEF Same, Visible
<1>4. CASE Fill(p)
  <2>1. settled' = settled /\ loose' = loose
    BY <1>4 DEF Fill
  <2>2. a # Job(p) => entry'[a] = entry[a]
    BY <1>1, <1>4 DEF TypeOK, Fill
  <2>3. Filling(p) /\ Visible(Job(p))
    BY <1>1, <1>4 DEF Fill, Controlled, Filling, Filled
  <2>4. QED
    BY <2>1, <2>2, <2>3 DEF Same, Visible
<1>5. CASE Flush(p)
  BY <1>5 DEF Flush, Same, Visible
<1>6. CASE Remove(p)
  <2>1. a # Job(p) => /\ entry'[a] = entry[a] /\ loose'[a] = loose[a]
                      /\ a \in settled => a \in settled'
    BY <1>1, <1>6 DEF TypeOK, Remove
  <2>2. Filling(p) /\ Visible(Job(p))
    BY <1>1, <1>6 DEF Remove, Controlled, Filling, Filled
  <2>3. QED
    BY <2>1, <2>2 DEF Same, Visible
<1>7. QED
  BY <1>1, <1>2, <1>3, <1>4, <1>5, <1>6, Untouched

\* Nobody begins to fill a directory that is there.
LEMMA Entering ==
    ASSUME IInv, NEW p \in Publisher, Act(p), Filling(p)'
    PROVE  /\ Job(p)' = Job(p)
           /\ Filling(p) \/ (Publish(p) /\ ~Visible(Job(p)))
<1>1. TypeOK /\ Controlled(p) /\ Job(p) \in Address
  BY JobFacts DEF IInv
<1>2. pc'[p] \in {"fill", "verify", "accept", "remove"} /\ InPlace(Job(p)')
  BY DEF Filling, InPlace
<1>3. pc \in [Publisher -> Steps]
  BY <1>1 DEF TypeOK
<1>4. ~Call(p) /\ ~Accept(p) /\ ~Abort(p) /\ ~Kill(p)
  BY <1>2, <1>3 DEF Call, Accept, Onward, Abort, Kill, GoTo
<1>5. at' = at /\ Job(p)' = Job(p) /\ InPlace(Job(p))
  BY <1>2, <1>4, Untouched, <1>1 DEF Job
<1>6. Shape[Job(p)].reuse = {} /\ Shape[Job(p)].flush = "none" /\ Shape[Job(p)].by = "fill"
  BY <1>1, <1>5, ShapeFacts DEF InPlace
<1>7. CASE Check(p)
  BY <1>2, <1>3, <1>6, <1>7 DEF Check, GoTo
<1>8. CASE Write(p) \/ SyncStage(p) \/ Flush(p) \/ FlushFails(p)
  BY <1>1, <1>5, <1>8 DEF Write, SyncStage, Flush, FlushFails, Controlled
<1>9. CASE Publish(p)
  <2>1. AfterLostRace(Job(p)) = "abort"
    BY <1>6 DEF AfterLostRace
  <2>2. Visible(Job(p)) => pc'[p] = "abort"
    BY <1>3, <1>9, <2>1 DEF Publish, GoTo, Taken
  <2>3. QED
    BY <1>2, <1>5, <1>9, <2>2
<1>10. CASE Fill(p) \/ Verify(p) \/ Remove(p)
  BY <1>5, <1>10 DEF Fill, Verify, Remove, Filling
<1>11. CASE Fail(p)
  <2>1. pc[p] = "publish" => pc'[p] = "abort"
    BY <1>3, <1>11 DEF Fail, GoTo
  <2>2. pc[p] \in {"fill", "verify"}
    BY <1>1, <1>2, <1>5, <1>11, <2>1 DEF Fail, Controlled
  <2>3. QED
    BY <1>5, <2>2 DEF Filling
<1>12. QED
  BY <1>4, <1>5, <1>7, <1>8, <1>9, <1>10, <1>11 DEF Act, Step

-----------------------------------------------------------------------------
(* The invariant of the publisher that takes a step *)

\* Steps after which nothing is claimed.
LEMMA Quiet ==
    ASSUME NEW p \in Publisher, pc'[p] \in {"check", "abort", "done", "idle"}
    PROVE  Controlled(p)' /\ Prepared(p)' /\ Filled(p)' /\ Accepting(p)'
BY DEF Controlled, Prepared, Filled, Filling, Accepting

LEMMA OwnStep ==
    ASSUME IInv, NEW p \in Publisher, Act(p)
    PROVE  Controlled(p)' /\ Prepared(p)' /\ Filled(p)' /\ Accepting(p)'
<1>1. /\ TypeOK /\ CarefulOnDisk
      /\ Controlled(p) /\ Prepared(p) /\ Filled(p) /\ Accepting(p) /\ Job(p) \in Address
  BY JobFacts DEF IInv
<1>2. /\ pc \in [Publisher -> Steps] /\ stage \in [Publisher -> Contents]
      /\ forced \in [Publisher -> SUBSET Parts] /\ entry \in [Address -> Contents]
      /\ loose \in [Address -> SUBSET Parts]
  BY <1>1 DEF TypeOK
<1> DEFINE k == Job(p)
<1>3. ASSUME pc'[p] \notin {"check", "abort", "done", "idle"}
      PROVE  Controlled(p)' /\ Prepared(p)' /\ Filled(p)' /\ Accepting(p)'
  <2>1. ~Call(p) /\ ~Accept(p) /\ ~Abort(p) /\ ~Kill(p)
    BY <1>2, <1>3 DEF Call, Accept, Onward, Abort, Kill, GoTo
  <2>2. Job(p)' = k
    BY <1>1, <2>1, Untouched DEF Job
  <2>3. InPlace(k) => Shape[k].reuse = {} /\ Shape[k].flush = "none"
    BY <1>1, ShapeFacts DEF InPlace
  <2>4. CASE Check(p)
    <3>1. CASE pc'[p] = "verify"
      <4>1. Shape[k].reuse # {} /\ ~InPlace(k)
        BY <1>2, <2>3, <2>4, <3>1 DEF Check, GoTo
      <4>2. QED
        BY <2>2, <3>1, <4>1 DEF Controlled, Prepared, Filled, Filling, Accepting, InPlace
    <3>2. CASE pc'[p] = "write"
      <4>1. ~InPlace(k) /\ stage'[p] = {}
        BY <1>2, <2>4, <3>2 DEF Check, GoTo
      <4>2. QED
        BY <2>2, <3>2, <4>1 DEF Controlled, Prepared, Filled, Filling, Accepting, InPlace
    <3>3. CASE pc'[p] = "publish"
      <4>1. InPlace(k) /\ forced'[p] = {}
        BY <1>2, <2>4, <3>3 DEF Check, GoTo
      <4>2. QED
        BY <2>2, <3>3, <4>1 DEF Controlled, Prepared, Filled, Filling, Accepting, InPlace
    <3>4. QED
      BY <1>2, <1>3, <2>4, <3>1, <3>2, <3>3 DEF Check, GoTo
  <2>5. CASE Write(p)
    <3>1. ~InPlace(k) /\ stage[p] \in {{}, {"payload"}}
      BY <1>1, <2>5 DEF Write, Controlled, Prepared
    <3>2. CASE Shape[k].by = "link"
      <4>1. pc'[p] = "publish" /\ stage'[p] = Parts /\ forced'[p] = Parts
        BY <1>2, <2>5, <3>2 DEF Write, GoTo
      <4>2. QED
        BY <2>2, <3>1, <4>1 DEF Controlled, Prepared, Filled, Filling, Accepting, InPlace
    <3>3. CASE Shape[k].by # "link"
      <4>1. stage'[p] = Extended(stage[p])
        BY <1>2, <2>5, <3>3 DEF Write
      <4>2. pc'[p] = IF stage[p] = {} THEN "write" ELSE "sync"
        BY <1>2, <2>5, <3>3 DEF Write, GoTo
      <4>3. Shape[k].by = "rename"
        BY <1>1, <3>1, <3>3, ShapeFacts DEF InPlace
      <4>4. CASE stage[p] = {}
        <5>1. pc'[p] = "write" /\ stage'[p] = {"payload"}
          BY <4>1, <4>2, <4>4, PartFacts
        <5>2. QED
          BY <2>2, <3>1, <5>1 DEF Controlled, Prepared, Filled, Filling, Accepting, InPlace
      <4>5. CASE stage[p] = {"payload"}
        <5>1. pc'[p] = "sync" /\ stage'[p] = Parts
          BY <4>1, <4>2, <4>5, PartFacts
        <5>2. QED
          BY <2>2, <3>1, <4>3, <5>1 DEF Controlled, Prepared, Filled, Filling, Accepting, InPlace
      <4>6. QED
        BY <3>1, <4>4, <4>5
    <3>4. QED
      BY <3>2, <3>3
  <2>6. CASE SyncStage(p)
    <3>1. ~InPlace(k) /\ stage[p] = Parts
      BY <1>1, <2>6 DEF SyncStage, Controlled, Prepared
    <3>2. pc'[p] = "publish" /\ stage'[p] = Parts /\ forced'[p] = Shape[k].syncs
      BY <1>2, <2>6, <3>1 DEF SyncStage, GoTo
    <3>3. QED
      BY <2>2, <3>1, <3>2 DEF Controlled, Prepared, Filled, Filling, Accepting, InPlace, Careful
  <2>7. CASE Publish(p)
    <3>1. CASE Taken(k)
      <4>1. pc'[p] = "verify" /\ Shape[k].reuse # {}
        BY <1>2, <1>3, <2>7, <3>1 DEF Publish, GoTo, AfterLostRace
      <4>2. ~InPlace(k)
        BY <2>3, <4>1
      <4>3. QED
        BY <2>2, <4>1, <4>2 DEF Controlled, Prepared, Filled, Filling, Accepting, InPlace
    <3>2. CASE ~Taken(k) /\ InPlace(k)
      <4>1. pc[p] = "publish" /\ forced[p] = {}
        BY <1>1, <2>7, <3>2 DEF Publish, Prepared
      <4>2. pc'[p] = "fill"
        BY <1>2, <2>7, <3>2 DEF Publish, GoTo
      <4>3. loose'[k] = Parts
        <5>1. loose' = [loose EXCEPT ![k] = Parts \ forced[p]]
          BY <2>7, <3>2 DEF Publish
        <5>2. Parts \ forced[p] = Parts
          BY <4>1
        <5>3. QED
          BY <1>1, <1>2, <5>1, <5>2
      <4>4. entry'[k] = {}
        BY <1>1, <1>2, <2>7, <3>2 DEF Publish
      <4>5. QED
        BY <2>2, <3>2, <4>2, <4>3, <4>4, PartFacts
           DEF Controlled, Prepared, Filled, Filling, Accepting, InPlace, Visible
    <3>3. CASE ~Taken(k) /\ ~InPlace(k)
      <4>1. stage[p] = Parts
        BY <1>1, <2>7, <3>3 DEF Publish, Prepared
      <4>2. entry'[k] = Parts
        BY <1>1, <1>2, <2>7, <3>3, <4>1 DEF Publish
      <4>3. \/ pc'[p] = "verify" /\ Shape[k].flush # "raise"
            \/ pc'[p] = "flush"
        BY <1>2, <2>7, <3>3 DEF Publish, GoTo
      <4>4. QED
        BY <2>2, <3>3, <4>2, <4>3, PartFacts
           DEF Controlled, Prepared, Filled, Filling, Accepting, InPlace, Visible
    <3>4. QED
      BY <3>1, <3>2, <3>3
  <2>8. CASE Fill(p)
    <3>1. /\ InPlace(k) /\ loose[k] = Parts
      BY <1>1, <2>8 DEF Fill, Controlled, Filled, Filling
    <3>2. loose' = loose /\ entry'[k] = Extended(entry[k]) /\ pc'[p] \in {"fill", "verify"}
      BY <1>1, <1>2, <2>8 DEF Fill, GoTo
    <3>3. entry'[k] # Absent
      BY <3>2, PartFacts
    <3>4. QED
      BY <2>2, <3>1, <3>2, <3>3
         DEF Controlled, Prepared, Filled, Filling, Accepting, InPlace, Visible
  <2>9. CASE Flush(p)
    <3>1. ~InPlace(k) /\ Visible(k)
      BY <1>1, <2>9 DEF Flush, Controlled, Accepting
    <3>2. pc'[p] = "verify" /\ entry' = entry /\ loose' = loose /\ k \in settled'
      BY <1>1, <1>2, <2>9, <3>1 DEF Flush, GoTo
    <3>3. Careful(k) => loose[k] = {}
      BY <1>1, <3>1 DEF CarefulOnDisk
    <3>4. QED
      BY <2>2, <3>1, <3>2, <3>3
         DEF Controlled, Prepared, Filled, Filling, Accepting, InPlace, Visible, OnDisk, Careful
  <2>10. CASE Verify(p)
    <3>1. UNCHANGED <<entry, loose, settled>> /\ pc[p] = "verify"
      BY <2>10 DEF Verify, public
    <3>2. CASE pc'[p] = "accept"
      <4>1. Whole(k)
        <5>1. (\A b \in Shape[k].binds \cup {k} : Whole(b)) \/ pc'[p] \in {"remove", "abort"}
          BY <1>2, <2>10 DEF Verify, GoTo
        <5>2. QED
          BY <3>2, <5>1
      <4>2. QED
        BY <1>1, <2>2, <3>1, <3>2, <4>1
           DEF Controlled, Prepared, Filled, Filling, Accepting, InPlace, Visible, Whole, OnDisk, Careful
    <3>3. CASE pc'[p] = "remove"
      <4>1. InPlace(k)
        BY <1>2, <2>10, <3>3 DEF Verify, GoTo
      <4>2. QED
        BY <1>1, <2>2, <3>1, <3>3, <4>1
           DEF Controlled, Prepared, Filled, Filling, Accepting, InPlace, Visible
    <3>4. QED
      BY <1>2, <1>3, <2>10, <3>2, <3>3 DEF Verify, GoTo
  <2>11. CASE Remove(p)
    <3>1. InPlace(k) /\ loose[k] = Parts /\ pc[p] = "remove"
      BY <1>1, <2>11 DEF Remove, Controlled, Filled, Filling
    <3>2. pc' = pc /\ loose' = loose /\ \E part \in Parts : entry' = [entry EXCEPT ![k] = {part}]
      BY <1>2, <1>3, <2>11 DEF Remove, GoTo
    <3>3. entry'[k] # Absent
      BY <1>1, <1>2, <3>2, ContentFacts
    <3>4. QED
      BY <2>2, <3>1, <3>2, <3>3
         DEF Controlled, Prepared, Filled, Filling, Accepting, InPlace, Visible
  <2>12. CASE Fail(p)
    <3>1. UNCHANGED <<entry, loose, settled>> /\ pc'[p] = "remove" /\ InPlace(k)
      BY <1>2, <1>3, <2>12 DEF Fail, GoTo, public
    <3>2. pc[p] \in {"write", "sync", "fill", "verify"}
      BY <1>2, <2>12, <3>1 DEF Fail, GoTo
    <3>3. Visible(k) /\ loose[k] = Parts
      BY <1>1, <3>1, <3>2 DEF Controlled, Filled, Filling
    <3>4. QED
      BY <2>2, <3>1, <3>3 DEF Controlled, Prepared, Filled, Filling, Accepting, InPlace, Visible
  <2>13. CASE FlushFails(p)
    <3>1. ~InPlace(k) /\ pc'[p] = "verify" /\ Shape[k].flush = "swallow"
      BY <1>1, <1>2, <1>3, <2>13 DEF FlushFails, GoTo, Controlled
    <3>2. QED
      BY <2>2, <3>1 DEF Controlled, Prepared, Filled, Filling, Accepting, InPlace
  <2>14. QED
    BY <2>1, <2>4, <2>5, <2>6, <2>7, <2>8, <2>9, <2>10, <2>11, <2>12, <2>13 DEF Act, Step
<1>4. QED
  BY <1>3, Quiet

\* The addresses behind the publisher are still there, and were returned to it.
LEMMA BehindStep ==
    ASSUME IInv, NEW p \in Publisher, Act(p)
    PROVE  Behind(p)'
<1>1. TypeOK /\ Behind(p) /\ Accepting(p) /\ queue' = queue /\ Job(p) \in Address
      /\ at[p] \in DOMAIN queue /\ Len(queue) \in Nat /\ DOMAIN queue = 1..Len(queue)
  BY JobFacts, Untouched DEF IInv
<1>2. ASSUME NEW j \in DOMAIN queue, Whole(queue[j]), ~InPlace(queue[j]) PROVE Whole(queue[j])'
  <2>1. queue[j] \in Address
    BY JobFacts, <1>1
  <2>2. Visible(queue[j]) /\ ~(Filling(p) /\ queue[j] = Job(p))
    BY <1>2, PartFacts DEF Whole, Visible, Filling
  <2>3. Same(queue[j])
    BY <2>1, <2>2, Steady
  <2>4. QED
    BY <1>1, <1>2, <2>3 DEF Same, Whole
<1>3. returned \subseteq returned'
  BY <1>1, Untouched DEF told, Accept
<1>4. CASE Abort(p) \/ Kill(p)
  <2>1. at'[p] = 1
    BY <1>1, <1>4 DEF Abort, Kill, TypeOK
  <2>2. QED
    BY <1>1, <2>1 DEF Behind
<1>5. CASE Accept(p)
  <2>1. at'[p] \in {at[p], at[p] + 1}
    BY <1>1, <1>5 DEF Accept, Onward, TypeOK
  <2>2. Whole(Job(p)) /\ Job(p) \in returned' /\ entry' = entry /\ pc[p] \in Running
    BY <1>1, <1>5 DEF Accept, Accepting, public, Running
  <2>a. pc'[p] # "idle"
    BY <1>1, <1>5 DEF Accept, Onward, GoTo, TypeOK
  <2>3. ASSUME NEW j \in DOMAIN queue, j < at'[p]
        PROVE  queue[j] \in returned' /\ (Whole(queue[j])' \/ InPlace(queue[j]))
    <3>1. j < at[p] \/ j = at[p]
      BY <1>1, <2>1, <2>3
    <3>2. CASE j < at[p]
      BY <1>1, <1>2, <1>3, <2>2, <3>2 DEF Behind
    <3>3. CASE j = at[p]
      BY <1>1, <2>2, <3>3 DEF Job, Whole
    <3>4. QED
      BY <3>1, <3>2, <3>3
  <2>4. QED
    BY <1>1, <2>3, <2>a DEF Behind, InPlace
<1>6. CASE at' = at /\ pc[p] \in Running /\ ~Abort(p) /\ ~Kill(p)
  <2>a. pc'[p] # "idle"
    BY <1>1, <1>6 DEF TypeOK, Act, Step, Call, Check, Write, SyncStage, Publish, AfterLostRace, Fill,
       Flush, Verify, Accept, Onward, Remove, Fail, FlushFails, GoTo, Running
  <2>1. ASSUME NEW j \in DOMAIN queue, j < at'[p]
        PROVE  queue[j] \in returned' /\ (Whole(queue[j])' \/ InPlace(queue[j]))
    BY <1>1, <1>2, <1>3, <1>6, <2>1 DEF Behind
  <2>2. QED
    BY <1>1, <2>1, <2>a DEF Behind, InPlace
<1>7. CASE Call(p) /\ at' = at
  <2>1. at'[p] = 1
    BY <1>1, <1>7 DEF Call, Behind
  <2>2. QED
    BY <1>1, <2>1 DEF Behind
<1>8. QED
  BY <1>1, <1>4, <1>5, <1>6, <1>7, Untouched

-----------------------------------------------------------------------------
(* The invariant of the others, and of the stores *)

LEMMA OthersStep ==
    ASSUME IInv, NEW p \in Publisher, Act(p), NEW q \in Publisher \ {p}
    PROVE  Controlled(q)' /\ Prepared(q)' /\ Filled(q)' /\ Accepting(q)' /\ Behind(q)'
<1>1. /\ TypeOK /\ OneFiller /\ Controlled(q) /\ Prepared(q) /\ Filled(q) /\ Accepting(q) /\ Behind(q)
      /\ Job(q) \in Address
  BY JobFacts DEF IInv
<1>2. /\ queue' = queue /\ pc'[q] = pc[q] /\ at'[q] = at[q] /\ Job(q)' = Job(q)
      /\ stage'[q] = stage[q] /\ forced'[q] = forced[q] /\ returned \subseteq returned'
  BY <1>1, Untouched DEF Job, told, Accept
<1>3. Controlled(q)' /\ Prepared(q)'
  BY <1>1, <1>2 DEF Controlled, Prepared, InPlace, Careful
<1>4. ASSUME NEW a \in Address, Visible(a), InPlace(a) => (a = Job(q) /\ Filling(q))
      PROVE  Same(a)
  <2>1. ~(Filling(p) /\ a = Job(p))
    BY <1>1, <1>4 DEF OneFiller, Filling
  <2>2. QED
    BY <1>4, <2>1, Steady
<1>5. Filled(q)'
  <2>1. Filling(q)' = Filling(q)
    BY <1>2 DEF Filling, InPlace
  <2>2. Filling(q) => Visible(Job(q))' /\ loose'[Job(q)] = Parts
    BY <1>1, <1>2, <1>4 DEF Filled, Same, Visible
  <2>3. QED
    BY <1>2, <2>1, <2>2 DEF Filled, Visible
<1>6. Accepting(q)'
  <2>1. pc[q] = "accept" => Whole(Job(q))'
    <3>1. pc[q] = "accept" /\ InPlace(Job(q)) => Filling(q)
      BY DEF Filling
    <3>2. pc[q] = "accept" => Visible(Job(q)) /\ Whole(Job(q))
      BY <1>1, PartFacts DEF Accepting, Visible, Whole
    <3>3. pc[q] = "accept" => Same(Job(q))
      BY <1>1, <1>4, <3>1, <3>2
    <3>4. QED
      BY <1>2, <3>2, <3>3 DEF Same, Whole
  <2>2. pc[q] = "flush" => Visible(Job(q))'
    BY <1>1, <1>2, <1>4 DEF Accepting, Controlled, Same, Visible
  <2>3. ~InPlace(Job(q)) /\ OnDisk(Job(q)) /\ Visible(Job(q)) =>
          OnDisk(Job(q))' /\ Visible(Job(q))'
    BY <1>1, <1>2, <1>4 DEF Same, OnDisk, Visible
  <2>4. QED
    BY <1>1, <1>2, <2>1, <2>2, <2>3 DEF Accepting, Whole, Visible, OnDisk, InPlace, Careful
<1>7. Behind(q)'
  <2>1. ASSUME NEW j \in DOMAIN queue, Whole(queue[j]), ~InPlace(queue[j]) PROVE Whole(queue[j])'
    <3>1. queue[j] \in Address /\ Visible(queue[j])
      BY <1>1, <2>1, JobFacts, PartFacts DEF Whole, Visible
    <3>2. Same(queue[j])
      BY <1>4, <2>1, <3>1
    <3>3. QED
      BY <1>2, <2>1, <3>2 DEF Same, Whole
  <2>2. QED
    BY <1>1, <1>2, <2>1 DEF Behind, InPlace
<1>8. QED
  BY <1>3, <1>5, <1>6, <1>7

\* One process fills a directory, ...
LEMMA OneFillerStep ==
    ASSUME IInv, NEW p \in Publisher, Act(p)
    PROVE  OneFiller'
<1>1. TypeOK /\ OneFiller /\ \A q \in Publisher : Filled(q)
  BY DEF IInv
<1>2. ASSUME NEW q \in Publisher \ {p}, Filling(q)'
      PROVE  Filling(q) /\ Job(q)' = Job(q) /\ Visible(Job(q))
  <2>1. Job(q)' = Job(q) /\ pc'[q] = pc[q]
    BY <1>1, Untouched DEF Job
  <2>2. Filling(q)
    BY <1>2, <2>1 DEF Filling, InPlace
  <2>3. QED
    BY <1>1, <2>1, <2>2 DEF Filled
<1>3. ASSUME NEW q \in Publisher \ {p}, Filling(q)', Filling(p)', Job(q)' = Job(p)'
      PROVE  FALSE
  <2>1. Job(p)' = Job(p) /\ Filling(p)
    BY <1>2, <1>3, Entering
  <2>2. QED
    BY <1>1, <1>2, <1>3, <2>1 DEF OneFiller
<1>4. ASSUME NEW q \in Publisher, NEW r \in Publisher,
             Filling(q)', Filling(r)', Job(q)' = Job(r)'
      PROVE  q = r
  <2>1. CASE q = p \/ r = p
    BY <1>3, <1>4, <2>1
  <2>2. CASE q # p /\ r # p
    BY <1>1, <1>2, <1>4, <2>2 DEF OneFiller
  <2>3. QED
    BY <2>1, <2>2
<1>5. QED
  BY <1>4 DEF OneFiller

\* ... what is published is whole and on disk, ...
LEMMA StoresStep ==
    ASSUME IInv, NEW p \in Publisher, Act(p)
    PROVE  VisibleIsWhole' /\ CarefulOnDisk' /\ SettledVisible'
<1>1. /\ TypeOK /\ VisibleIsWhole /\ CarefulOnDisk /\ SettledVisible
      /\ Controlled(p) /\ Prepared(p) /\ Filled(p) /\ Job(p) \in Address /\ losses' = losses
  BY JobFacts, Untouched DEF IInv
<1>2. ASSUME NEW a \in Address, ~InPlace(a)
      PROVE  /\ Visible(a)' => Whole(a)' \/ (losses > 0 /\ ~Careful(a))
             /\ Careful(a) => loose'[a] = {}
  <2>1. CASE Same(a)
    BY <1>1, <1>2, <2>1 DEF Same, VisibleIsWhole, CarefulOnDisk, Visible, Whole
  <2>2. CASE a = Job(p) /\ ~Visible(a) /\ Publish(p)
    <3>1. stage[p] = Parts /\ (Careful(a) => forced[p] = Parts)
      BY <1>1, <1>2, <2>2 DEF Publish, Prepared
    <3>2. entry'[a] = Parts
      BY <1>1, <1>2, <2>2, <3>1 DEF TypeOK, Publish, Taken
    <3>3. loose'[a] = Parts \ forced[p]
      BY <1>1, <1>2, <2>2, <3>1 DEF TypeOK, Publish, Taken
    <3>4. QED
      BY <3>1, <3>2, <3>3 DEF Whole
  <2>3. CASE a = Job(p) /\ ~Visible(a) /\ ~Publish(p)
    <3>1. ~Fill(p) /\ ~Remove(p)
      BY <1>1, <1>2, <2>3 DEF Controlled, Fill, Remove
    <3>2. entry' = entry /\ loose' = loose
      BY <1>1, <2>3, <3>1, Untouched DEF Flush
    <3>3. QED
      BY <1>1, <1>2, <2>3, <3>2 DEF CarefulOnDisk, Visible
  <2>4. ~Same(a) => a = Job(p) /\ ~Visible(a)
    BY <1>2, Steady DEF Filling
  <2>5. QED
    BY <2>1, <2>2, <2>3, <2>4
<1>3. VisibleIsWhole'
  BY <1>1, <1>2 DEF VisibleIsWhole, InPlace, Careful, Visible, Whole
<1>4. CarefulOnDisk'
  BY <1>2 DEF CarefulOnDisk, InPlace, Careful
<1>5. SettledVisible'
  <2>1. CASE UNCHANGED <<entry, loose, settled>>
    BY <1>1, <2>1 DEF SettledVisible, Visible
  <2>2. CASE Publish(p)
    <3>1. settled' = settled
      BY <2>2 DEF Publish
    <3>2. ASSUME NEW a \in settled PROVE Visible(a)'
      <4>1. Visible(a) /\ a \in Address
        BY <1>1 DEF SettledVisible, TypeOK
      <4>2. ~(Filling(p) /\ a = Job(p))
        BY <2>2 DEF Publish, Filling
      <4>3. Same(a)
        BY <4>1, <4>2, Steady
      <4>4. QED
        BY <4>1, <4>3 DEF Same, Visible
    <3>3. QED
      BY <3>1, <3>2 DEF SettledVisible
  <2>3. CASE Fill(p)
    <3>1. settled' = settled /\ entry' = [entry EXCEPT ![Job(p)] = Extended(entry[Job(p)])]
      BY <2>3 DEF Fill
    <3>2. \A a \in Address : entry'[a] = entry[a] \/ entry'[a] # Absent
      BY <1>1, <3>1, PartFacts DEF TypeOK
    <3>3. QED
      BY <1>1, <3>1, <3>2 DEF SettledVisible, Visible, TypeOK
  <2>4. CASE Flush(p)
    BY <1>1, <2>4 DEF Flush, SettledVisible, Visible
  <2>5. CASE Remove(p)
    <3>1. \/ entry' = [entry EXCEPT ![Job(p)] = Absent] /\ settled' = settled \ {Job(p)}
          \/ settled' = settled /\ \E part \in Parts : entry' = [entry EXCEPT ![Job(p)] = {part}]
      BY <2>5 DEF Remove
    <3>2. \A a \in settled' : entry'[a] = entry[a] \/ entry'[a] # Absent
      BY <1>1, <3>1, ContentFacts DEF TypeOK
    <3>3. settled' \subseteq settled
      BY <3>1
    <3>4. QED
      BY <1>1, <3>2, <3>3 DEF SettledVisible, Visible
  <2>6. QED
    BY <1>1, <2>1, <2>2, <2>3, <2>4, <2>5, Untouched
<1>6. QED
  BY <1>3, <1>4, <1>5

\* ... in a directory, ...
LEMMA HousedStep ==
    ASSUME IInv, NEW p \in Publisher, Act(p)
    PROVE  Housed' /\ \A q \in Publisher : Based(q)'
<1>1. /\ TypeOK /\ TypeOK' /\ Housed /\ (\A q \in Publisher : Based(q)) /\ Job(p) \in Address
      /\ directory \in [Directories -> {"absent", "made", "anchored"}]
  BY JobFacts, StepType DEF IInv, Act, TypeOK
<1>2. Housed'
  <2>1. ASSUME NEW a \in Address, Visible(a)' PROVE directory'[Home(a)] # "absent"
    <3>1. CASE Visible(a)
      BY <1>1, <2>1, <3>1, Grounded DEF Housed
    <3>2. CASE ~Visible(a)
      <4>1. Publish(p) /\ a = Job(p)
        BY <2>1, <3>2, Steady
      <4>2. directory[Home(a)] # "absent"
        BY <1>1, <4>1 DEF Publish, Based
      <4>3. QED
        BY <1>1, <2>1, <4>2, Grounded
    <3>3. QED
      BY <3>1, <3>2
  <2>2. QED
    BY <2>1 DEF Housed, Home
<1>3. ASSUME NEW q \in Publisher \ {p} PROVE Based(q)'
  <2>1. Job(q) \in Address /\ Job(q)' = Job(q) /\ pc'[q] = pc[q]
    BY <1>1, JobFacts, Untouched DEF Job
  <2>2. QED
    BY <1>1, <2>1, Grounded DEF Based, Home
<1>4. ASSUME pc'[p] \in {"write", "sync", "publish"} PROVE directory'[Home(Job(p)')] # "absent"
  <2>0. pc \in [Publisher -> Steps]
    BY <1>1 DEF TypeOK
  <2>1. Check(p) \/ Write(p) \/ SyncStage(p)
    BY <1>4, <2>0 DEF Act, Step, Call, Publish, AfterLostRace, Fill, Flush, Verify, Accept, Onward,
       Remove, Abort, Fail, FlushFails, Kill, GoTo
  <2>2. Job(p)' = Job(p)
    BY <2>1 DEF Check, Write, SyncStage, Stay, Job
  <2>3. CASE Check(p)
    <3>1. MakeDirectory(Job(p))
      BY <1>4, <2>0, <2>3 DEF Check, GoTo
    <3>2. QED
      BY <1>1, <2>2, <3>1, HomeFacts DEF MakeDirectory
  <2>4. CASE Write(p) \/ SyncStage(p)
    <3>1. pc[p] \in {"write", "sync"}
      BY <2>4 DEF Write, SyncStage
    <3>2. QED
      BY <1>1, <2>2, <3>1, Grounded DEF Based
  <2>5. QED
    BY <2>1, <2>3, <2>4
<1>5. Based(p)'
  BY <1>4 DEF Based, Home
<1>6. QED
  BY <1>2, <1>3, <1>5

\* ... in the order of the queue, ...
LEMMA OrderStep ==
    ASSUME IInv, NEW p \in Publisher, Act(p)
    PROVE  InOrder'
<1>1. /\ TypeOK /\ InOrder /\ Behind(p) /\ queue' = queue /\ returned \subseteq returned'
  BY Untouched DEF IInv, told, Accept
<1>2. ASSUME NEW a \in Listed, Visible(a)' PROVE Earlier(a) \subseteq returned
  <2>1. CASE Visible(a)
    BY <1>1, <1>2, <2>1 DEF InOrder
  <2>2. CASE ~Visible(a)
    <3>0. a \in Address
      BY <1>1, ListedFacts
    <3>1. a = Job(p)
      BY <1>2, <2>2, <3>0, Steady
    <3>2. Earlier(a) = {queue[i] : i \in {j \in DOMAIN queue : j < at[p]}}
      BY <1>1, <3>1, EarlierFacts
    <3>3. QED
      BY <1>1, <3>2 DEF Behind
  <2>3. QED
    BY <2>1, <2>2
<1>3. QED
  BY <1>1, <1>2 DEF InOrder, Listed, Earlier

\* ... and what was returned stays.
LEMMA ReturnedStep ==
    ASSUME IInv, NEW p \in Publisher, Act(p)
    PROVE  \A a \in returned' : Returned(a)'
<1>1. /\ TypeOK /\ OneFiller /\ (\A a \in returned : Returned(a)) /\ losses' = losses
      /\ Accepting(p) /\ Job(p) \in Address
      /\ \A q \in Publisher : Filled(q)
  BY JobFacts, Untouched DEF IInv
<1>2. ASSUME NEW a \in Address, NEW q \in Publisher, Job(q)' = a, Filling(q)'
      PROVE  /\ Job(q) = a
             /\ Filling(q) \/ ~Visible(a)
  <2>1. CASE q = p
    BY <1>2, <2>1, Entering
  <2>2. CASE q # p
    BY <1>1, <1>2, <2>2, Untouched DEF Job, Filling, InPlace
  <2>3. QED
    BY <2>1, <2>2
<1>3. ASSUME NEW a \in Address, Whole(a), ~(Filling(p) /\ Job(p) = a)
      PROVE  Same(a) /\ Visible(a) /\ Whole(a)'
  <2>1. Visible(a)
    BY <1>3, PartFacts DEF Visible, Whole
  <2>2. Same(a)
    BY <1>3, <2>1, Steady
  <2>3. QED
    BY <1>3, <2>1, <2>2 DEF Same, Whole
<1>4. ASSUME NEW a \in returned,
             a \in hasty' => a \in hasty \/ (a = Job(p) /\ Accept(p) /\ ~OnDisk(a)),
             a \in hasty \cup newly => a \in hasty' \cup newly' \/ (Durable(a) /\ Whole(a) /\ UNCHANGED public)
      PROVE  Returned(a)'
  <2>1. a \in Address /\ Returned(a)
    BY <1>1 DEF TypeOK
  <2>3. a \notin hasty' \cup newly' => Durable(a)' /\ Whole(a)'
    <3>1. Filling(p) /\ Job(p) = a => loose[a] = Parts
      BY <1>1 DEF Filled
    <3>2. a \notin hasty \cup newly => loose[a] # Parts /\ Whole(a) /\ Durable(a)
      BY <2>1, PartFacts DEF Returned, Durable, OnDisk
    <3>3. a \notin hasty \cup newly => Durable(a)' /\ Whole(a)'
      BY <1>1, <1>3, <2>1, <3>1, <3>2, Grounded DEF Same, Durable, OnDisk
    <3>4. Durable(a) /\ Whole(a) /\ UNCHANGED public => Durable(a)' /\ Whole(a)'
      BY DEF public, Durable, OnDisk, Anchored, Whole, Home
    <3>5. QED
      BY <1>4, <3>3, <3>4
  <2>4. losses = 0 => Whole(a)' /\ \A q \in Publisher : Job(q)' = a => ~Filling(q)'
    <3>1. losses = 0 => Whole(a) /\ \A q \in Publisher : Job(q) = a => ~Filling(q)
      BY <2>1 DEF Returned
    <3>2. QED
      BY <1>2, <1>3, <2>1, <3>1
  <2>5. a \in hasty' => \/ Shape[a].reuse # {}
                        \/ Shape[a].flush # "raise"
                        \/ ~Careful(a)
    <3>1. CASE a \in hasty
      BY <2>1, <3>1 DEF Returned
    <3>2. CASE a = Job(p) /\ Accept(p) /\ ~OnDisk(a)
      <4>1. InPlace(a) => Shape[a].flush = "none"
        BY <2>1, ShapeFacts DEF InPlace
      <4>2. QED
        BY <1>1, <3>2, <4>1 DEF Accept, Accepting
    <3>3. QED
      BY <1>4, <3>1, <3>2
  <2>6. QED
    BY <1>1, <2>3, <2>4, <2>5 DEF Returned, Careful
<1>5. CASE UNCHANGED told
  BY <1>4, <1>5 DEF told
<1>6. CASE Accept(p)
  <2>1. /\ returned' = returned \cup {Job(p)}
        /\ hasty' = (hasty \ {Job(p)}) \cup (IF OnDisk(Job(p)) THEN {} ELSE {Job(p)})
        /\ newly' = (newly \ {Job(p)}) \cup (IF Anchored(Job(p)) THEN {} ELSE {Job(p)})
        /\ UNCHANGED public /\ Whole(Job(p))
    BY <1>1, <1>6 DEF Accept, Accepting
  <2>a. /\ Job(p) \in hasty' => ~OnDisk(Job(p))
        /\ Job(p) \notin hasty' \cup newly' => Durable(Job(p))
    BY <2>1 DEF Durable
  <2>2. ASSUME NEW a \in returned PROVE Returned(a)'
    BY <1>4, <1>6, <2>1, <2>a
  <2>3. ASSUME NEW a, a = Job(p), a \notin returned PROVE Returned(a)'
    <3>1. a \in Address /\ Whole(a)
      BY <1>1, <2>1, <2>3
    <3>2. entry'[a] = Parts /\ (a \notin hasty' \cup newly' => Durable(a)' /\ Whole(a)')
      BY <2>1, <2>3, <2>a, <3>1 DEF public, Durable, OnDisk, Anchored, Whole, Home
    <3>4. ASSUME NEW q \in Publisher, Job(q)' = a, Filling(q)' PROVE FALSE
      <4>1. Job(q) = a /\ Filling(q)
        BY <1>1, <1>2, <3>1, <3>4, PartFacts DEF Visible, Whole
      <4>2. pc[p] = "accept" /\ Filling(p)
        BY <1>6, <2>3, <4>1 DEF Accept, Filling
      <4>3. q = p
        BY <1>1, <2>3, <4>1, <4>2 DEF OneFiller
      <4>4. pc'[p] \in {"done", "check"}
        BY <1>1, <1>6 DEF TypeOK, Accept, Onward, GoTo
      <4>5. QED
        BY <3>4, <4>3, <4>4 DEF Filling
    <3>5. a \in hasty' => \/ Shape[a].reuse # {}
                          \/ Shape[a].flush # "raise"
                          \/ ~Careful(a)
      <4>1. InPlace(a) => Shape[a].flush = "none"
        BY <3>1, ShapeFacts DEF InPlace
      <4>2. QED
        BY <1>1, <1>6, <2>3, <2>a, <4>1 DEF Accept, Accepting
    <3>6. QED
      BY <3>2, <3>4, <3>5 DEF Returned, Whole, Careful
  <2>4. QED
    BY <2>1, <2>2, <2>3
<1>7. QED
  BY <1>1, <1>5, <1>6, Untouched

-----------------------------------------------------------------------------
(* Power losses, and the invariant *)

LEMMA StepInv ==
    ASSUME IInv, NEW p \in Publisher, Act(p)
    PROVE  IInv'
<1>1. TypeOK'
  BY StepType DEF IInv, Act
<1>2. ASSUME NEW q \in Publisher
      PROVE  Controlled(q)' /\ Prepared(q)' /\ Filled(q)' /\ Accepting(q)' /\ Behind(q)'
  BY OwnStep, BehindStep, OthersStep
<1>3. QED
  BY <1>1, <1>2, OneFillerStep, StoresStep, HousedStep, OrderStep, ReturnedStep DEF IInv

LEMMA LossInv ==
    ASSUME IInv, PowerLoss
    PROVE  IInv'
<1>1. /\ TypeOK /\ TypeOK' /\ VisibleIsWhole /\ CarefulOnDisk /\ SettledVisible /\ InOrder /\ Housed
      /\ (\A p \in Publisher : Behind(p)) /\ \A a \in returned : Returned(a)
  BY LossType DEF IInv
<1>2. UNCHANGED <<queue, returned, hasty, newly>> /\ losses' > 0
  BY <1>1 DEF PowerLoss, told, TypeOK
<1>3. ASSUME NEW p \in Publisher
      PROVE  /\ pc'[p] \notin Running
             /\ pc[p] \in Running => at'[p] = 1
             /\ pc[p] \notin Running => at'[p] = at[p] /\ pc'[p] = pc[p]
  BY DEF PowerLoss, Running
<1>4. ASSUME NEW p \in Publisher
      PROVE  /\ Controlled(p)' /\ Based(p)' /\ Prepared(p)' /\ Filled(p)' /\ Accepting(p)'
             /\ ~Filling(p)'
  BY <1>3 DEF Controlled, Based, Prepared, Filled, Filling, Accepting, Running
<1>5. ASSUME NEW p \in Publisher PROVE Behind(p)'
  <2>1. DOMAIN queue = 1..Len(queue)
    BY <1>1, JobFacts
  <2>2. QED
    BY <1>1, <1>2, <1>3, <2>1 DEF Behind
<1>6. OneFiller'
  BY <1>4 DEF OneFiller
<1>7. VisibleIsWhole'
  <2>1. ASSUME NEW a \in Address, Visible(a)', ~InPlace(a), Careful(a) PROVE Whole(a)'
    <3>1. Visible(a) /\ loose[a] = {} /\ entry'[a] = entry[a]
      BY <1>1, <2>1, LossFacts DEF CarefulOnDisk
    <3>2. entry[a] = Parts
      BY <1>1, <2>1, <3>1 DEF VisibleIsWhole, Whole
    <3>3. QED
      BY <3>1, <3>2 DEF Whole
  <2>2. QED
    BY <1>2, <2>1 DEF VisibleIsWhole, InPlace, Careful
<1>8. CarefulOnDisk'
  BY <1>1, LossFacts DEF CarefulOnDisk
<1>9. SettledVisible'
  BY <1>1, LossFacts DEF SettledVisible, TypeOK
<1>10. InOrder'
  BY <1>1, <1>2, LossFacts, ListedFacts DEF InOrder, Listed, Earlier
<1>a. Housed'
  <2>1. ASSUME NEW a \in Address, Visible(a)' PROVE Anchored(a)'
    BY <1>1, <2>1, LossFacts DEF Housed
  <2>2. QED
    BY <2>1 DEF Housed, Anchored, Home
<1>11. ASSUME NEW a \in returned PROVE Returned(a)'
  <2>1. a \in Address /\ Returned(a)
    BY <1>1 DEF TypeOK
  <2>2. Durable(a) /\ Whole(a) => Durable(a)' /\ Whole(a)'
    <3>1. Whole(a) => Visible(a)
      BY PartFacts DEF Whole, Visible
    <3>2. Durable(a) => loose[a] = {} /\ Anchored(a)
      BY DEF Durable, OnDisk
    <3>3. Durable(a) /\ Whole(a) => entry'[a] = Parts /\ a \in settled' /\ loose'[a] = {} /\ Anchored(a)'
      BY <1>1, <2>1, <3>1, <3>2, LossFacts DEF Whole
    <3>4. QED
      BY <3>3 DEF Durable, OnDisk, Whole
  <2>3. losses' # 0
    BY <1>1, <1>2 DEF TypeOK
  <2>4. QED
    BY <1>2, <2>1, <2>2, <2>3 DEF Returned, Careful
<1>12. QED
  BY <1>1, <1>2, <1>4, <1>5, <1>6, <1>7, <1>8, <1>9, <1>10, <1>11, <1>a DEF IInv

LEMMA InitInv == Init => IInv
<1> SUFFICES ASSUME Init PROVE IInv
  OBVIOUS
<1>1. /\ queue \in Queues /\ queue \in Seq(Address) \ {<<>>} /\ queue \in Seq(Address)
  BY PublicationAssumption DEF Init
<1>2. 1 \in DOMAIN queue
  BY <1>1
<1>3. /\ at = [p \in Publisher |-> 1] /\ pc = [p \in Publisher |-> "idle"]
      /\ stage = [p \in Publisher |-> Absent] /\ forced = [p \in Publisher |-> {}]
      /\ entry = [a \in Address |-> Absent] /\ loose = [a \in Address |-> {}]
      /\ directory = [d \in Directories |-> IF d \in Founded THEN "anchored" ELSE "absent"]
      /\ litter = {} /\ settled = {} /\ returned = {} /\ hasty = {} /\ newly = {}
      /\ faults = 0 /\ losses = 0
  BY DEF Init
<1>4. TypeOK
  <2>1. at \in [Publisher -> DOMAIN queue]
    BY <1>2, <1>3
  <2>2. pc \in [Publisher -> Steps]
    BY <1>3 DEF Steps
  <2>3. /\ stage \in [Publisher -> Contents] /\ entry \in [Address -> Contents]
        /\ forced \in [Publisher -> SUBSET Parts] /\ loose \in [Address -> SUBSET Parts]
    BY <1>3, ContentFacts
  <2>4. faults \in 0..MaxFaults /\ losses \in 0..MaxLosses
    BY <1>3, BoundFacts
  <2>5. directory \in [Directories -> {"absent", "made", "anchored"}]
    BY <1>3
  <2>6. QED
    BY <1>1, <1>3, <2>1, <2>2, <2>3, <2>4, <2>5 DEF TypeOK
<1>5. \A a \in Address : ~Visible(a) /\ loose[a] = {}
  BY <1>3 DEF Visible
<1>6. VisibleIsWhole /\ CarefulOnDisk /\ SettledVisible /\ InOrder /\ Housed
  BY <1>3, <1>4, <1>5, ListedFacts DEF VisibleIsWhole, CarefulOnDisk, SettledVisible, InOrder, Housed
<1>7. ASSUME NEW p \in Publisher
      PROVE  /\ ~Filling(p)
             /\ Controlled(p) /\ Based(p) /\ Prepared(p)
             /\ Filled(p) /\ Accepting(p) /\ Behind(p)
  <2>1. pc[p] = "idle" /\ at[p] = 1
    BY <1>3
  <2>2. \A j \in DOMAIN queue : ~(j < 1)
    BY <1>1
  <2>3. QED
    BY <2>1, <2>2 DEF Filling, Controlled, Based, Prepared, Filled, Accepting, Behind
<1>8. QED
  BY <1>3, <1>4, <1>6, <1>7 DEF IInv, OneFiller

LEMMA StutterInv == ASSUME IInv, UNCHANGED vars PROVE IInv'
BY DEF IInv, vars, calls, private, public, told, counters, TypeOK, VisibleIsWhole, OneFiller,
       CarefulOnDisk, SettledVisible, InOrder, Housed, Controlled, Based, Prepared, Filled, Filling,
       Accepting, Behind, Returned, Visible, Whole, OnDisk, Anchored, Durable, Job, Home, InPlace,
       Careful, Listed, Earlier

\* The inductive invariant holds in every state.
THEOREM Invariance == Spec => []IInv
<1>1. IInv /\ [Next]_vars => IInv'
  BY StepInv, LossInv, StutterInv DEF Next, Act
<1>2. QED
  BY InitInv, <1>1, PTL DEF Spec

-----------------------------------------------------------------------------
(* The properties of the run *)

\* What was returned and is missing was lost with the power, and was at risk.
LEMMA ReturnedRisk ==
    ASSUME IInv, NEW a \in returned, ~Whole(a)
    PROVE  losses > 0 /\ Risked(a)
<1>1. losses \in Nat /\ Returned(a)
  BY BoundFacts DEF IInv, TypeOK
<1>2. QED
  BY <1>1 DEF Returned, Risked

\* Every variable stays in its type (TypeOK), for any stores and publishers.
THEOREM TypeCorrect == Spec => []TypeOK
<1>1. IInv => TypeOK
  BY DEF IInv
<1>2. QED
  BY Invariance, <1>1, PTL

\* What stands under an address is whole, a copy that is filled in place apart,
\* and after a power loss those of a store that does not force the whole
\* content to disk (VisibleIsWhole): rename and link publish what was written
\* before, and nobody else changes it.
THEOREM VisibleWhole == Spec => []VisibleIsWhole
<1>1. IInv => VisibleIsWhole
  BY DEF IInv
<1>2. QED
  BY Invariance, <1>1, PTL

\* A parent of what stands is missing only after a power loss, and only if
\* the caller was told of it too early (ParentsStand).
THEOREM ParentsStanding == Spec => []ParentsStand
<1>1. IInv => ParentsStand
  <2> SUFFICES ASSUME IInv, NEW a \in Listed, Visible(a), NEW b \in Earlier(a), ~Whole(b)
               PROVE  losses > 0 /\ Risked(b)
    BY DEF ParentsStand
  <2>1. b \in returned
    BY DEF IInv, InOrder
  <2>2. QED
    BY <2>1, ReturnedRisk
<1>2. QED
  BY Invariance, <1>1, PTL

\* What a caller was told is published is missing only after a power loss, and
\* only if the caller was told too early: in a directory that was new, or in
\* one of the kinds of store that Risked lists (ReturnedSurvives).
THEOREM ReturnedSurvive == Spec => []ReturnedSurvives
<1>1. IInv => ReturnedSurvives
  BY ReturnedRisk DEF ReturnedSurvives
<1>2. QED
  BY Invariance, <1>1, PTL

-----------------------------------------------------------------------------
(* The stores implement ContentStore *)

Held == {a \in Addressed : Durable(a)}
Befores == [a \in Ordered |-> Earlier(a) \cap Ordered]

\* The order of the queue does not change, and neither do the addresses in it.
LEMMA OrderedFixed ==
    ASSUME queue' = queue
    PROVE  Ordered' = Ordered /\ Befores' = Befores
BY DEF Ordered, Befores, Listed, Earlier, InPlace

\* A publication is one of the abstract store, in order.
LEMMA PublishMaps ==
    ASSUME IInv, NEW p \in Publisher, Publish(p), ~Taken(Job(p)), ~InPlace(Job(p))
    PROVE  /\ Job(p) \in Ordered /\ Job(p) \notin Addressed
           /\ Befores[Job(p)] \subseteq Addressed
           /\ Addressed' = Addressed \cup {Job(p)}
           /\ Held' = Held /\ Befores' = Befores
<1> DEFINE k == Job(p)
<1>1. /\ TypeOK /\ SettledVisible /\ Prepared(p) /\ Behind(p) /\ k \in Address /\ Act(p)
      /\ at[p] \in DOMAIN queue /\ DOMAIN queue = 1..Len(queue) /\ Len(queue) \in Nat
  BY JobFacts DEF IInv, Act, Step
<1>2. queue' = queue /\ Ordered' = Ordered /\ Befores' = Befores
  BY <1>1, Untouched, OrderedFixed
<1>3. k \in Ordered /\ ~Visible(k) /\ k \notin Addressed
  <2>1. k \in Listed /\ ~Visible(k)
    BY <1>1 DEF Listed, Job, Taken
  <2>2. ~Whole(k)
    BY <2>1, PartFacts DEF Visible, Whole
  <2>3. QED
    BY <1>1, <2>1, <2>2 DEF Ordered, Addressed
<1>4. Befores[k] \subseteq Addressed
  <2>1. Befores[k] = Earlier(k) \cap Ordered
    BY <1>3 DEF Befores
  <2>2. Earlier(k) = {queue[i] : i \in {j \in DOMAIN queue : j < at[p]}}
    BY <1>1, EarlierFacts
  <2>3. ASSUME NEW j \in DOMAIN queue, j < at[p], queue[j] \in Ordered PROVE Whole(queue[j])
    <3>1. pc[p] \in Running
      BY DEF Publish, Running
    <3>2. QED
      BY <1>1, <2>3, <3>1 DEF Behind, Ordered
  <2>4. QED
    BY <2>1, <2>2, <2>3 DEF Addressed
<1>5. entry'[k] = Parts /\ k \notin settled'
  <2>1. stage[p] = Parts
    BY <1>1 DEF Publish, Prepared
  <2>2. entry' = [entry EXCEPT ![k] = stage[p]] /\ settled' = settled
    BY DEF Publish
  <2>3. QED
    BY <1>1, <1>3, <2>1, <2>2 DEF TypeOK, SettledVisible
<1>a. Ordered \subseteq Address /\ directory' = directory
  BY <1>1, ListedFacts DEF Ordered, Publish
<1>6. ASSUME NEW a \in Address, a # k
      PROVE  entry'[a] = entry[a] /\ loose'[a] = loose[a] /\ (a \in settled' <=> a \in settled)
  BY <1>1, <1>6, Steady DEF Same, Publish
<1>7. \A a : a \in Addressed' <=> a \in Addressed \/ a = k
  BY <1>2, <1>3, <1>5, <1>6, <1>a DEF Addressed, Whole
<1>b. ASSUME NEW a \in Address PROVE a # k => (Durable(a)' <=> Durable(a))
  BY <1>6, <1>a DEF Durable, OnDisk, Anchored, Home
<1>c. ASSUME NEW a, a = k PROVE ~Durable(a)'
  BY <1>5, <1>c DEF Durable, OnDisk
<1>8. \A a : a \in Held' <=> a \in Held
  BY <1>3, <1>7, <1>a, <1>b, <1>c DEF Held, Addressed
<1>9. QED
  BY <1>2, <1>3, <1>4, <1>7, <1>8

\* What a publisher does else keeps what is published, and may put it on disk.
LEMMA StepMaps ==
    ASSUME IInv, NEW p \in Publisher, Act(p),
           ~(Publish(p) /\ ~Taken(Job(p)) /\ ~InPlace(Job(p)))
    PROVE  Addressed' = Addressed /\ Held \subseteq Held' /\ Befores' = Befores
<1>1. queue' = queue /\ Ordered' = Ordered /\ Befores' = Befores
  BY Untouched, OrderedFixed DEF IInv
<1>a. TypeOK /\ Ordered \subseteq Address
  BY ListedFacts DEF IInv, Ordered
<1>2. ASSUME NEW a \in Ordered, Whole(a) PROVE Same(a) /\ (Anchored(a) => Anchored(a)')
  BY <1>2, <1>a, Steady, Grounded, PartFacts DEF Ordered, Filling, Whole, Visible
<1>3. ASSUME NEW a \in Ordered, Whole(a)' PROVE Whole(a)
  <2>1. Visible(a)' /\ a \in Address /\ ~InPlace(a)
    BY <1>3, <1>a, PartFacts DEF Visible, Whole, Ordered
  <2>2. Visible(a)
    <3>1. SUFFICES ASSUME ~Visible(a) PROVE FALSE
      OBVIOUS
    <3>2. Publish(p) /\ a = Job(p)
      BY <2>1, <3>1, Steady
    <3>3. QED
      BY <2>1, <3>1, <3>2 DEF Taken
  <2>3. Same(a)
    BY <2>1, <2>2, Steady DEF Filling
  <2>4. QED
    BY <1>3, <2>3 DEF Same, Whole
<1>4. \A a : a \in Addressed' <=> a \in Addressed
  BY <1>1, <1>2, <1>3 DEF Addressed, Same, Whole
<1>5. Held \subseteq Held'
  BY <1>2, <1>4 DEF Held, Addressed, Same, Durable, OnDisk
<1>6. QED
  BY <1>1, <1>4, <1>5

\* A power loss takes nothing that is on disk with its directory.
LEMMA LossMaps ==
    ASSUME IInv, PowerLoss
    PROVE  /\ Addressed' \subseteq Addressed /\ Held \subseteq Addressed'
           /\ Held' = Addressed' /\ Befores' = Befores
<1>1. TypeOK /\ Housed /\ queue' = queue /\ Ordered' = Ordered /\ Befores' = Befores
      /\ Ordered \subseteq Address
  BY OrderedFixed, ListedFacts DEF IInv, PowerLoss, Ordered
<1>2. ASSUME NEW a \in Ordered
      PROVE  /\ Whole(a)' => Whole(a) /\ Durable(a)'
             /\ Whole(a) /\ Durable(a) => Whole(a)'
  <2>1. a \in Address
    BY <1>1
  <2>2. (Whole(a) => Visible(a)) /\ (Whole(a)' => Visible(a)')
    BY PartFacts DEF Visible, Whole
  <2>3. Visible(a) => directory[Home(a)] # "absent"
    BY <1>1, <2>1 DEF Housed
  <2>4. Whole(a)' => Whole(a) /\ a \in settled' /\ loose'[a] = {} /\ Anchored(a)'
    BY <1>1, <2>1, <2>2, <2>3, LossFacts
  <2>5. Whole(a) /\ Durable(a) => Whole(a)'
    <3>1. Durable(a) => loose[a] = {}
      BY DEF Durable, OnDisk
    <3>2. QED
      BY <1>1, <2>1, <2>2, <3>1, LossFacts DEF Whole
  <2>6. QED
    BY <2>4, <2>5 DEF Durable, OnDisk
<1>3. Addressed' \subseteq Addressed /\ Held \subseteq Addressed' /\ Held' = Addressed'
  BY <1>1, <1>2 DEF Addressed, Held
<1>4. QED
  BY <1>1, <1>3

\* The stores of the program implement ContentStore (ImplementsStore): an
\* address that is not filled in place appears whole, in its publisher's
\* order, and goes only by a power loss that comes before the entry, its
\* content and its directory are on disk.  A caller may have been told of it
\* before that: what it was told is for ReturnedSurvives to say.
THEOREM StoresImplement == Spec => ImplementsStore
<1>1. Init => Store!Init
  <2> SUFFICES ASSUME Init PROVE Store!Init
    OBVIOUS
  <2>1. \A a \in Address : ~Whole(a)
    BY PartFacts DEF Init, Whole
  <2>2. Addressed = {} /\ {a \in Addressed : Durable(a)} = {}
    BY <2>1, InitInv, ListedFacts DEF Addressed, Ordered, IInv
  <2>3. QED
    BY <2>2 DEF Store!Init
<1>2. IInv /\ [Next]_vars => [Store!Next]_<<Befores, Addressed, Held>>
  <2> SUFFICES ASSUME IInv, [Next]_vars
               PROVE  [Store!Next]_<<Befores, Addressed, Held>>
    OBVIOUS
  <2>1. ASSUME NEW p \in Publisher, Act(p) PROVE Store!Next
    <3>1. CASE Publish(p) /\ ~Taken(Job(p)) /\ ~InPlace(Job(p))
      <4>1. Store!Publish(Job(p))
        BY <3>1, PublishMaps DEF Store!Publish, Held, Befores
      <4>2. Job(p) \in DOMAIN Befores
        BY <3>1, PublishMaps DEF Befores
      <4>3. QED
        BY <4>1, <4>2 DEF Store!Next, Befores
    <3>2. CASE ~(Publish(p) /\ ~Taken(Job(p)) /\ ~InPlace(Job(p)))
      <4>1. Addressed' = Addressed /\ Held \subseteq Held' /\ Befores' = Befores
        BY <2>1, <3>2, StepMaps
      <4>2. Held' \in SUBSET Addressed
        BY <4>1 DEF Held
      <4>3. Store!Keep
        BY <4>1, <4>2 DEF Store!Keep, Held, Befores
      <4>4. QED
        BY <4>3 DEF Store!Next
    <3>3. QED
      BY <3>1, <3>2
  <2>2. CASE PowerLoss
    <3>1. Store!PowerLoss
      BY <2>2, LossMaps DEF Store!PowerLoss, Held, Befores
    <3>2. QED
      BY <3>1 DEF Store!Next
  <2>3. CASE UNCHANGED vars
    BY <2>3 DEF vars, calls, private, public, told, counters, Befores, Addressed, Held, Ordered,
                Listed, Earlier, Whole, Durable, OnDisk, Anchored, Home, InPlace
  <2>4. QED
    BY <2>1, <2>2, <2>3 DEF Next, Act
<1>3. QED
  BY Invariance, <1>1, <1>2, PTL DEF Spec, ImplementsStore, Store!Spec, Befores, Held
=============================================================================
