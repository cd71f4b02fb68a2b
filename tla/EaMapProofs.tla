---- MODULE EaMapProofs ----
(***************************************************************************)
(* Proofs about what the EA Map shows and says.                            *)
(***************************************************************************)
EXTENDS EaMap, EaPagesProofs

-----------------------------------------------------------------------------
(* What concerns one part is a behaviour of that part. *)

LEMMA PartPages == MapSpec => Spec
<1>1. MapInit => Init
  BY DEF MapInit
<1>2. [MapNext]_mapVars => [Next]_vars
  BY DEF MapNext, mapVars
<1> QED BY <1>1, <1>2, PTL DEF MapSpec, Spec

LEMMA PartLake == MapSpec => Lake!Spec
<1>1. MapInit => Lake!Init
  BY DEF MapInit
<1>2. [MapNext]_mapVars => [Lake!Next]_(Lake!vars)
  BY DEF MapNext, mapVars, lakeVars, Lake!vars
<1> QED BY <1>1, <1>2, PTL DEF MapSpec, Lake!Spec

LEMMA PartChat == MapSpec => Chat!Init /\ [][Chat!Next]_(Chat!vars)
<1>1. MapInit => Chat!Init
  BY DEF MapInit
<1>2. [MapNext]_mapVars => [Chat!Next]_(Chat!vars)
  BY DEF MapNext, mapVars, chatVars, Chat!vars
<1> QED BY <1>1, <1>2, PTL DEF MapSpec

LEMMA PartSignals == MapSpec => Kept!Init /\ [][Kept!Next]_(Kept!vars)
<1>1. MapInit => Kept!Init
  BY DEF MapInit
<1>2. [MapNext]_mapVars => [Kept!Next]_(Kept!vars)
  BY DEF MapNext, mapVars, keptVars, Kept!vars
<1> QED BY <1>1, <1>2, PTL DEF MapSpec

(* What EaPagesProofs shows of the pages holds of the map as a whole:      *)
(* map, live map and releases.                                             *)
THEOREM PagesHonest == MapSpec => MapHangsTogether /\ []LiveHonest /\ []ReleaseHonest
  BY PartPages, MapHolds, LivesHonest, ReleaseIsHonest, PTL

-----------------------------------------------------------------------------
(* The producers that people are asked about *)

Answered == {"approved", "rejected"}
Fates == Lake!Open \union Answered \union {"superseded", "none"}
Ties == {"none", "verified", "removed", "rejected"}
Verdict(p) == Lake!LastDecision(chg[p])

(* What a run knows of the decisions, and what has become of them: nobody  *)
(* else withdraws what is open, and an answer leaves a trace on the link.  *)
KnownInv ==
  \A p \in Lake!Pairs :
    /\ mem.decided[p] \in Lake!Open => Verdict(p) \in Lake!Open \union Answered
    /\ mem.decided[p] = "rejected" => edge[p] # Lake!None
LakeInv ==
  /\ chg \in [Lake!Pairs -> Seq(Fates)] /\ edge \in [Lake!Pairs -> Ties]
  /\ repo \subseteq DOMAIN Files /\ stored \subseteq DOMAIN Files
  /\ \A p \in Lake!Pairs : Verdict(p) \in Answered => edge[p] # Lake!None
  /\ runPc \in {"read", "collected"} => KnownInv
  /\ runPc = "collected" => mem.files \subseteq DOMAIN Files /\ mem.graph = Lake!Graph(mem.files)

Asks ==
  /\ runPc = "collected" /\ runPc' = "applied" =>
       \A d \in DOMAIN Lake!Wanted :
         \/ Lake!Wanted[d].layer # "ingestion"
         \/ Lake!Guesses(Lake!Wanted[d].topic, active) = {}
         \/ Lake!Decided(d)
         \/ \E c \in Components : Lake!LastDecision(chg'[<<c, d>>]) \in Lake!Open
  /\ \A d \in Lake!Ids :
       (\E c \in Components : Lake!LastDecision(chg[<<c, d>>]) \in Answered) =>
         \A c \in Components : Len(chg'[<<c, d>>]) = Len(chg[<<c, d>>])

LEMMA SeqEnds ==
  ASSUME NEW S, NEW q \in Seq(S), NEW x \in S
  PROVE  /\ Append(q, x) \in Seq(S) /\ Append(q, x) # <<>> /\ Len(Append(q, x)) = Len(q) + 1
         /\ Append(q, x)[Len(Append(q, x))] = x
         /\ q # <<>> => SubSeq(q, 1, Len(q) - 1) \in Seq(S) /\ Len(SubSeq(q, 1, Len(q) - 1)) = Len(q) - 1
<1>1. /\ Append(q, x) \in Seq(S) /\ Append(q, x) # <<>> /\ Len(Append(q, x)) = Len(q) + 1
      /\ Append(q, x)[Len(q) + 1] = x
  BY AppendProperties
<1>2. ASSUME q # <<>> PROVE SubSeq(q, 1, Len(q) - 1) \in Seq(S) /\ Len(SubSeq(q, 1, Len(q) - 1)) = Len(q) - 1
  <2>1. Len(q) \in Nat /\ Len(q) # 0
    BY <1>2, EmptySeq, LenProperties
  <2>2. Len(q) - 1 \in Int /\ (Len(q) - 1) - 1 + 1 = Len(q) - 1 /\ (1 <= Len(q) - 1 \/ Len(q) - 1 = 0)
    <3>1. \A n \in Nat : n # 0 => n - 1 \in Int /\ (n - 1) - 1 + 1 = n - 1 /\ (1 <= n - 1 \/ n - 1 = 0)
      OBVIOUS
    <3> QED BY <2>1, <3>1
  <2>3. \A i \in 1 .. Len(q) - 1 : q[i] \in S
    BY <2>1, ElementOfSeq
  <2> QED BY <2>2, <2>3, SubSeqProperties
<1> QED BY <1>1, <1>2

LEMMA Decisions ==
  ASSUME NEW q \in Seq(Fates), NEW x \in Fates
  PROVE  /\ Lake!LastDecision(Append(q, x)) = x /\ Append(q, x) \in Seq(Fates)
         /\ q # <<>> => /\ Append(Lake!Front(q), x) \in Seq(Fates) /\ Len(Append(Lake!Front(q), x)) = Len(q)
                        /\ Lake!LastDecision(Append(Lake!Front(q), x)) = x
         /\ Lake!LastDecision(q) \in Lake!Open => q # <<>>
<1>1. \A r \in Seq(Fates) : Append(r, x) \in Seq(Fates) /\ Len(Append(r, x)) = Len(r) + 1 /\ Lake!LastDecision(Append(r, x)) = x
  BY SeqEnds DEF Lake!LastDecision, Lake!Last
<1>2. ASSUME q # <<>> PROVE Lake!Front(q) \in Seq(Fates) /\ Len(Lake!Front(q)) = Len(q) - 1
  BY <1>2, SeqEnds DEF Lake!Front
<1>3. Len(q) \in Nat
  BY LenProperties
<1>4. Lake!LastDecision(q) \in Lake!Open => q # <<>>
  BY DEF Lake!LastDecision, Lake!Open, Lake!None
<1>5. ASSUME q # <<>>
      PROVE  /\ Append(Lake!Front(q), x) \in Seq(Fates) /\ Len(Append(Lake!Front(q), x)) = Len(q)
             /\ Lake!LastDecision(Append(Lake!Front(q), x)) = x
  <2>1. Append(Lake!Front(q), x) \in Seq(Fates) /\ Len(Append(Lake!Front(q), x)) = Len(Lake!Front(q)) + 1
        /\ Lake!LastDecision(Append(Lake!Front(q), x)) = x
    BY <1>1, <1>2, <1>5
  <2> QED BY <1>2, <1>3, <1>5, <2>1
<1> QED BY <1>1, <1>4, <1>5

LEMMA DecidedOnes ==
  \A q \in Seq(Fates) : \A x \in Fates :
    /\ Lake!LastDecision(Append(q, x)) = x /\ Append(q, x) \in Seq(Fates)
    /\ q # <<>> => /\ Append(Lake!Front(q), x) \in Seq(Fates) /\ Len(Append(Lake!Front(q), x)) = Len(q)
                   /\ Lake!LastDecision(Append(Lake!Front(q), x)) = x
    /\ Lake!LastDecision(q) \in Lake!Open => q # <<>>
  BY Decisions

LEMMA LakeStart == Lake!Init => LakeInv
<1> SUFFICES ASSUME Lake!Init PROVE LakeInv
  OBVIOUS
<1>1. /\ repo \subseteq DOMAIN Files /\ stored \subseteq DOMAIN Files /\ runPc = "idle"
      /\ edge = [p \in Lake!Pairs |-> Lake!None] /\ chg = [p \in Lake!Pairs |-> <<>>]
  BY DEF Lake!Init
<1>2. <<>> \in Seq(Fates) /\ Lake!None \in Ties
  BY EmptySeq DEF Lake!None, Ties
<1>3. chg \in [Lake!Pairs -> Seq(Fates)] /\ edge \in [Lake!Pairs -> Ties]
  BY <1>1, <1>2
<1>4. \A p \in Lake!Pairs : Verdict(p) \notin Answered
  BY <1>1 DEF Verdict, Lake!LastDecision, Lake!None, Answered
<1> QED BY <1>1, <1>3, <1>4 DEF LakeInv

(* Answers of people, links by hand, and what is published. *)
LEMMA LakeBeside ==
  ASSUME LakeInv, UNCHANGED <<runPc, mem, stored>>, repo' \subseteq DOMAIN Files,
         \A p \in Lake!Pairs : edge[p] # Lake!None => edge'[p] # Lake!None,
         edge' \in [Lake!Pairs -> Ties], chg' \in [Lake!Pairs -> Seq(Fates)],
         \A p \in Lake!Pairs : \/ chg'[p] = chg[p]
                               \/ /\ Verdict(p) \in Lake!Open /\ Lake!LastDecision(chg'[p]) \in Answered
                                  /\ Len(chg'[p]) = Len(chg[p]) /\ edge'[p] # Lake!None
  PROVE  LakeInv' /\ Asks
<1>1. \A p \in Lake!Pairs : Verdict(p)' \in Answered => edge'[p] # Lake!None
  BY DEF LakeInv, Verdict
<1>2. runPc' \in {"read", "collected"} => KnownInv'
  <2> SUFFICES ASSUME runPc \in {"read", "collected"}, NEW p \in Lake!Pairs
               PROVE  /\ mem.decided[p] \in Lake!Open => Lake!LastDecision(chg'[p]) \in Lake!Open \union Answered
                      /\ mem.decided[p] = "rejected" => edge'[p] # Lake!None
    BY DEF KnownInv, Verdict
  <2>1. /\ mem.decided[p] \in Lake!Open => Verdict(p) \in Lake!Open \union Answered
        /\ mem.decided[p] = "rejected" => edge[p] # Lake!None
    BY DEF LakeInv, KnownInv
  <2> QED BY <2>1 DEF Verdict
<1>3. LakeInv'
  BY <1>1, <1>2 DEF LakeInv
<1>4. Asks
  BY DEF Asks, Lake!Pairs
<1> QED BY <1>3, <1>4

LEMMA LakeDecide ==
  ASSUME LakeInv, NEW p \in Lake!Pairs, NEW approve \in BOOLEAN, Lake!Decide(p, approve)
  PROVE  LakeInv' /\ Asks
<1> DEFINE x == IF approve THEN "approved" ELSE "rejected"
           to == IF approve THEN "verified" ELSE Lake!Refused(p)
<1>1. /\ Verdict(p) \in Lake!Open /\ UNCHANGED <<repo, stored, runPc, mem>>
      /\ chg' = [chg EXCEPT ![p] = Append(Lake!Front(chg[p]), x)] /\ edge' = [edge EXCEPT ![p] = to]
  BY DEF Lake!Decide, Verdict
<1>2. chg \in [Lake!Pairs -> Seq(Fates)] /\ edge \in [Lake!Pairs -> Ties] /\ repo \subseteq DOMAIN Files
  BY DEF LakeInv
<1>3. to \in Ties /\ to # Lake!None /\ x \in Fates /\ x \in Answered
  <2>1. edge[p] \in Ties
    BY <1>2
  <2>2. Lake!Refused(p) \in Ties /\ Lake!Refused(p) # "none"
    BY <2>1 DEF Lake!Refused, Lake!None, Ties
  <2> QED BY <2>2 DEF Lake!None, Answered, Fates, Ties
<1> HIDE DEF x, to
<1>4. /\ Append(Lake!Front(chg[p]), x) \in Seq(Fates) /\ Len(Append(Lake!Front(chg[p]), x)) = Len(chg[p])
      /\ Lake!LastDecision(Append(Lake!Front(chg[p]), x)) = x
  BY <1>1, <1>2, <1>3, Decisions DEF Verdict
<1>5. /\ chg' \in [Lake!Pairs -> Seq(Fates)] /\ edge' \in [Lake!Pairs -> Ties]
      /\ edge'[p] = to /\ chg'[p] = Append(Lake!Front(chg[p]), x)
      /\ \A q \in Lake!Pairs \ {p} : edge'[q] = edge[q] /\ chg'[q] = chg[q]
  BY <1>1, <1>2, <1>3, <1>4
<1> QED BY <1>1, <1>2, <1>3, <1>4, <1>5, LakeBeside

LEMMA LakeByHand ==
  ASSUME LakeInv, NEW p \in Lake!Pairs, Lake!ByHand(p)
  PROVE  LakeInv' /\ Asks
<1>1. PICK to \in {"verified", "removed"} : edge' = [edge EXCEPT ![p] = to] /\ UNCHANGED <<repo, stored, chg, runPc, mem>>
  BY DEF Lake!ByHand
<1>2. chg \in [Lake!Pairs -> Seq(Fates)] /\ edge \in [Lake!Pairs -> Ties] /\ repo \subseteq DOMAIN Files
  BY DEF LakeInv
<1>3. edge' \in [Lake!Pairs -> Ties] /\ \A q \in Lake!Pairs : edge[q] # Lake!None => edge'[q] # Lake!None
  <2>1. to \in Ties /\ to # Lake!None
    BY DEF Lake!None, Ties
  <2>2. edge' = [edge EXCEPT ![p] = to]
    BY <1>1
  <2> HIDE DEF Lake!None
  <2> QED BY <1>2, <2>1, <2>2
<1> QED BY <1>1, <1>2, <1>3, LakeBeside

(* What a run asks about are topics. *)
LEMMA AskingTopics ==
  ASSUME LakeInv, runPc = "collected", NEW d \in Lake!Asking
  PROVE  d \in Lake!Ids
<1> DEFINE files == mem.files
           contracts == {Files[i] : i \in Lake!Accepted(files)}
<1>1. /\ d \in DOMAIN Lake!Graph(files).nodes
      /\ Lake!Guesses(Lake!Graph(files).nodes[d].topic, active) # {}
  BY DEF Lake!Asking, Lake!Wanted, LakeInv
<1>2. Lake!Graph(files).nodes[d].topic # Lake!None
  BY <1>1 DEF Lake!Guesses
<1> DEFINE derives == {e \in UNION {{<<Lake!OwnerOf(files, t), c.id>> : t \in Lake!Lineage(files, c)}
                                     \union {<<c.id, Lake!OwnerOf(files, t)>> : t \in Lake!ChecksOn(c)} : c \in contracts} :
                         e[1] # e[2]}
           cited == {t \in Tables : \E e \in derives : t \in {e[1], e[2]}}
<1>3. Lake!Graph(files).nodes =
        [e \in {c.id : c \in contracts} \union cited |->
           IF e \in cited THEN Lake!TableAttrs(e) ELSE Lake!Attrs(CHOOSE c \in contracts : c.id = e)]
  BY Zenon DEF Lake!Graph
<1> HIDE DEF cited, derives
<1>4. d \notin cited /\ \E c \in contracts : c.id = d
  BY <1>1, <1>2, <1>3 DEF Lake!TableAttrs
<1>5. PICK c \in contracts : c.id = d /\ Lake!Graph(files).nodes[d] = Lake!Attrs(c)
  BY <1>1, <1>3, <1>4
<1>6. c.server = "kafka"
  BY <1>2, <1>5 DEF Lake!Attrs
<1>7. \A i \in Lake!Accepted(files) : i \in files
  BY DEF Lake!Accepted, Lake!Readable
<1>8. PICK i \in DOMAIN Files : c = Files[i]
  BY <1>7 DEF LakeInv
<1> QED BY <1>5, <1>6, <1>8 DEF Lake!Ids

LEMMA LakeApply ==
  ASSUME LakeInv, Lake!Apply
  PROVE  LakeInv' /\ Asks
<1>1. runPc = "collected" /\ runPc' = "applied" /\ UNCHANGED <<repo, active, edge, mem>> /\ stored' \subseteq DOMAIN Files
  BY DEF Lake!Apply, LakeInv
<1> DEFINE A == Lake!Asking
<1>2. PICK guess \in [A -> Components] :
        /\ \A d \in A : guess[d] \in Lake!Guesses(Lake!Wanted[d].topic, active)
        /\ LET emitted == {<<guess[d], d>> : d \in A}
               scopes  == (mem.touched \intersect active) \union {guess[d] : d \in A}
           IN  chg' = [p \in Lake!Pairs |->
                         IF p \in emitted THEN Lake!Asked(chg[p], mem.decided[p])
                         ELSE IF p[1] \in scopes /\ Lake!LastDecision(chg[p]) \in Lake!Open
                         THEN Append(Lake!Front(chg[p]), "superseded") ELSE chg[p]]
  BY DEF Lake!Apply
<1> DEFINE emitted == {<<guess[d], d>> : d \in A}
           scopes  == (mem.touched \intersect active) \union {guess[d] : d \in A}
<1>3. chg' = [p \in Lake!Pairs |->
                IF p \in emitted THEN Lake!Asked(chg[p], mem.decided[p])
                ELSE IF p[1] \in scopes /\ Verdict(p) \in Lake!Open
                THEN Append(Lake!Front(chg[p]), "superseded") ELSE chg[p]]
  BY <1>2 DEF Verdict
<1>4. \A d \in A : d \in Lake!Ids /\ ~Lake!Decided(d) /\ <<guess[d], d>> \in Lake!Pairs
  BY <1>1, <1>2, AskingTopics DEF Lake!Asking, Lake!Pairs
<1>5. \A d \in A, c \in Components : edge[<<c, d>>] = Lake!None /\ Verdict(<<c, d>>) \notin Answered
  BY <1>4 DEF Lake!Decided, LakeInv, Lake!Pairs
<1>6. \A p \in Lake!Pairs : chg[p] \in Seq(Fates)
  BY DEF LakeInv
<1>7. ASSUME NEW d \in A
      PROVE  LET p == <<guess[d], d>> IN
             /\ Lake!Asked(chg[p], mem.decided[p]) \in Seq(Fates)
             /\ Lake!LastDecision(Lake!Asked(chg[p], mem.decided[p])) \in Lake!Open
  <2> DEFINE p == <<guess[d], d>>
  <2>1. p \in Lake!Pairs /\ edge[p] = Lake!None /\ Verdict(p) \notin Answered
    BY <1>2, <1>4, <1>5
  <2>2. KnownInv
    BY <1>1 DEF LakeInv
  <2> HIDE DEF p, A
  <2>3. CASE mem.decided[p] \in Lake!Blocked
    <3>1. mem.decided[p] \in Lake!Open
      BY <2>1, <2>2, <2>3 DEF KnownInv, Lake!Blocked
    <3>2. Verdict(p) \in Lake!Open
      BY <2>1, <2>2, <3>1 DEF KnownInv
    <3>3. Lake!Asked(chg[p], mem.decided[p]) = chg[p]
      BY <2>3 DEF Lake!Asked
    <3> QED BY <1>6, <2>1, <3>2, <3>3 DEF Verdict, p
  <2>4. CASE mem.decided[p] \notin Lake!Blocked
    <3>1. Lake!Asked(chg[p], mem.decided[p]) = Append(chg[p], "pending")
      BY <2>4 DEF Lake!Asked
    <3>2. chg[p] \in Seq(Fates)
      BY <1>6, <2>1
    <3>3. Lake!LastDecision(Append(chg[p], "pending")) = "pending" /\ Append(chg[p], "pending") \in Seq(Fates)
      BY <3>2, DecidedOnes DEF Fates, Lake!Open
    <3> QED BY <3>1, <3>3 DEF Lake!Open, p
  <2> QED BY <2>3, <2>4
<1>8. ASSUME NEW p \in Lake!Pairs, p \notin emitted
      PROVE  /\ chg'[p] \in Seq(Fates) /\ Len(chg'[p]) = Len(chg[p])
             /\ chg'[p] = chg[p] \/ Lake!LastDecision(chg'[p]) = "superseded"
  <2>1. CASE p[1] \in scopes /\ Verdict(p) \in Lake!Open
    <3>1. chg'[p] = Append(Lake!Front(chg[p]), "superseded")
      BY <1>3, <1>8, <2>1
    <3>2. chg[p] \in Seq(Fates) /\ Lake!LastDecision(chg[p]) \in Lake!Open
      BY <1>6, <2>1 DEF Verdict
    <3>3. chg[p] # <<>> /\ "superseded" \in Fates
      BY <3>2, DecidedOnes DEF Fates
    <3> HIDE DEF A, emitted, scopes
    <3> QED BY <3>1, <3>2, <3>3, DecidedOnes
  <2>2. CASE ~(p[1] \in scopes /\ Verdict(p) \in Lake!Open)
    <3>1. chg'[p] = chg[p]
      BY <1>3, <1>8, <2>2
    <3> QED BY <1>6, <3>1
  <2> QED BY <2>1, <2>2
<1>9. \A p \in emitted : p \in Lake!Pairs /\ chg'[p] \in Seq(Fates) /\ Lake!LastDecision(chg'[p]) \in Lake!Open
  BY <1>3, <1>4, <1>7
<1>10. DOMAIN chg' = Lake!Pairs /\ chg' = [p \in Lake!Pairs |-> chg'[p]]
  BY <1>3
<1>11. \A p \in Lake!Pairs : p \in emitted => \A c \in Components : Verdict(<<c, p[2]>>) \notin Answered
  BY <1>5
<1> HIDE DEF A, emitted, scopes
<1>12. chg' \in [Lake!Pairs -> Seq(Fates)]
  BY <1>8, <1>9, <1>10
<1>13. \A p \in Lake!Pairs : Verdict(p)' \in Answered => edge'[p] # Lake!None
  BY <1>1, <1>8, <1>9 DEF LakeInv, Verdict, Answered, Lake!Open
<1>14. LakeInv'
  BY <1>1, <1>12, <1>13 DEF LakeInv
<1>15. ASSUME NEW d \in DOMAIN Lake!Wanted, Lake!Wanted[d].layer = "ingestion",
              Lake!Guesses(Lake!Wanted[d].topic, active) # {}, ~Lake!Decided(d)
       PROVE  \E c \in Components : Lake!LastDecision(chg'[<<c, d>>]) \in Lake!Open
  <2>1. d \in A
    BY <1>15 DEF A, Lake!Asking
  <2>2. <<guess[d], d>> \in emitted /\ guess[d] \in Components
    BY <1>2, <2>1 DEF emitted
  <2> QED BY <1>9, <2>2
<1>16. ASSUME NEW d \in Lake!Ids, NEW b \in Components, Lake!LastDecision(chg[<<b, d>>]) \in Answered, NEW c \in Components
       PROVE  Len(chg'[<<c, d>>]) = Len(chg[<<c, d>>])
  <2>1. <<c, d>> \in Lake!Pairs
    BY DEF Lake!Pairs
  <2>2. <<c, d>> \notin emitted
    BY <1>11, <1>16, <2>1 DEF Verdict
  <2> QED BY <1>8, <2>1, <2>2
<1> QED BY <1>14, <1>15, <1>16 DEF Asks

LEMMA LakeStep == LakeInv /\ [Lake!Next]_(Lake!vars) => LakeInv' /\ [Asks]_(Lake!vars)
<1> SUFFICES ASSUME LakeInv, [Lake!Next]_(Lake!vars) PROVE LakeInv' /\ [Asks]_(Lake!vars)
  OBVIOUS
<1>1. CASE Lake!ReadState
  <2>1. runPc' = "read" /\ mem' = [decided |-> [p \in Lake!Pairs |-> Verdict(p)]] /\ UNCHANGED <<repo, stored, edge, chg>>
    BY <1>1 DEF Lake!ReadState, Verdict
  <2>2. KnownInv'
    BY <2>1 DEF KnownInv, Verdict, LakeInv, Answered
  <2>3. LakeInv'
    BY <2>1, <2>2 DEF LakeInv, Verdict
  <2> QED BY <2>1, <2>3 DEF Asks
<1>2. CASE Lake!Collect
  <2>1. PICK rd \in BOOLEAN, touched \in SUBSET Components :
          LET files == IF rd THEN repo ELSE stored IN
          mem' = [decided |-> mem.decided, touched |-> touched, files |-> files, graph |-> Lake!Graph(files)]
    BY <1>2 DEF Lake!Collect
  <2>2. runPc = "read" /\ runPc' = "collected" /\ UNCHANGED <<repo, stored, edge, chg>>
    BY <1>2 DEF Lake!Collect
  <2>3. KnownInv'
    BY <2>1, <2>2 DEF KnownInv, Verdict, LakeInv
  <2>4. mem'.files \subseteq DOMAIN Files /\ mem'.graph = Lake!Graph(mem'.files)
    BY <2>1 DEF LakeInv
  <2>5. LakeInv'
    BY <2>2, <2>3, <2>4 DEF LakeInv, Verdict
  <2> QED BY <2>2, <2>5 DEF Asks
<1>3. CASE Lake!Apply
  BY <1>3, LakeApply
<1>4. CASE Lake!End
  <2>1. runPc' = "idle" /\ UNCHANGED <<repo, stored, edge, chg>>
    BY <1>4 DEF Lake!End
  <2>2. LakeInv'
    BY <2>1 DEF LakeInv, Verdict
  <2> QED BY <2>1, <2>2 DEF Asks
<1>5. ASSUME NEW i \in Moving, Lake!Publish(i) PROVE LakeInv' /\ Asks
  <2>1. UNCHANGED <<runPc, mem, stored, edge, chg>> /\ repo' \subseteq DOMAIN Files
    BY <1>5, LakeAssumption DEF Lake!Publish, LakeInv
  <2> QED BY <2>1, LakeBeside DEF LakeInv
<1>6. ASSUME NEW c \in Components, Lake!Move(c) PROVE LakeInv' /\ Asks
  <2>1. UNCHANGED <<runPc, mem, stored, edge, chg, repo>>
    BY <1>6 DEF Lake!Move
  <2> QED BY <2>1, LakeBeside DEF LakeInv
<1>7. ASSUME NEW p \in Lake!Pairs, Lake!ByHand(p) \/ Lake!Decide(p, TRUE) \/ Lake!Decide(p, FALSE) PROVE LakeInv' /\ Asks
  BY <1>7, LakeByHand, LakeDecide
<1>8. CASE UNCHANGED Lake!vars
  <2>1. UNCHANGED <<runPc, mem, stored, edge, chg, repo>>
    BY <1>8 DEF Lake!vars
  <2> QED BY <1>8, <2>1, LakeBeside DEF LakeInv
<1> QED BY <1>1, <1>2, <1>3, <1>4, <1>5, <1>6, <1>7, <1>8 DEF Lake!Next

LEMMA LakeKept == Lake!Spec => []LakeInv
<1> QED BY LakeStart, LakeStep, PTL DEF Lake!Spec

(* After each run, every topic that enters the Data Lake by the contracts  *)
(* the run knows has a producer that somebody linked or refused, or an     *)
(* open proposal, also when the run could not read them, and what a person *)
(* has answered is never asked again (_propose_producers, whose decisions  *)
(* are read long before they are used): for any contracts, components,     *)
(* rules and number of runs.                                               *)
THEOREM ProducersAreAsked == MapSpec => ProducersAsked
<1>1. Lake!Spec => [][Asks]_(Lake!vars)
  BY LakeStart, LakeStep, PTL DEF Lake!Spec
<1>2. [][Asks]_(Lake!vars) => Lake!NobodyForgotten
  BY PTL DEF Asks, Lake!NobodyForgotten
<1>3. [][Asks]_(Lake!vars) => Lake!AnsweredOnce
  BY PTL DEF Asks, Answered, Lake!AnsweredOnce
<1> QED BY <1>1, <1>2, <1>3, PartLake, PTL DEF ProducersAsked, Lake!ProducersAsked

-----------------------------------------------------------------------------
(* Where a control is shown *)

PlaceOf(d) == Lake!SelectInSeq(Order, LAMBDA x : x = d)

LEMMA PlaceIs == ASSUME NEW d PROVE PlaceOf(d) \in Nat
<1> DEFINE I == {i \in 1..Len(Order) : Order[i] = d}
<1>1. PlaceOf(d) = IF I # {} THEN Lake!Min(I) ELSE 0
  BY DEF PlaceOf, Lake!SelectInSeq
<1>2. Len(Order) \in Nat
  BY LakeAssumption
<1>3. I \subseteq Nat
  BY <1>2
<1>4. ASSUME I # {} PROVE Lake!Min(I) \in I
  <2> HIDE DEF I
  <2> QED BY <1>3, <1>4, LeastNat DEF Lake!Min
<1> QED BY <1>1, <1>3, <1>4

LEMMA FirstIs == ASSUME NEW S, S # {} PROVE Lake!First(S) \in S
<1> DEFINE R == {PlaceOf(d) : d \in S}
<1>1. R \subseteq Nat /\ R # {}
  BY PlaceIs
<1>2. PICK m \in R : \A n \in R : m <= n
  <2> HIDE DEF R
  <2> QED BY <1>1, LeastNat
<1>3. PICK d \in S : \A e \in S : PlaceOf(d) <= PlaceOf(e)
  BY <1>2
<1> QED BY <1>3 DEF Lake!First, PlaceOf

(* match_controls gives a table to one dataset at most. *)
LEMMA HomesAre ==
  ASSUME NEW sets, NEW r
  PROVE  /\ \A d \in Lake!HomeOf(sets, r) :
              /\ d \in DOMAIN sets
              /\ \/ sets[d].table = r /\ LayerOf[r] # "bronze"
                 \/ /\ BaseOf[r] \in Lake!Bases(sets[d])
                    /\ LayerOf[r] = "bronze" \/ \A e \in DOMAIN sets : sets[e].table # r
         /\ \A d, e \in Lake!HomeOf(sets, r) : d = e
         /\ LayerOf[r] # "bronze" /\ (\E d \in DOMAIN sets : sets[d].table = r)
              => \E d \in Lake!HomeOf(sets, r) : sets[d].table = r
<1> DEFINE exact == {d \in DOMAIN sets : LayerOf[r] # "bronze" /\ sets[d].table = r}
           base  == {d \in DOMAIN sets : BaseOf[r] \in Lake!Bases(sets[d])}
<1>1. Lake!HomeOf(sets, r) =
        IF exact # {} THEN {Lake!First(exact)} ELSE IF base # {} THEN {Lake!First(base)} ELSE {}
  BY DEF Lake!HomeOf
<1>2. /\ exact # {} => Lake!First(exact) \in exact
      /\ base # {} => Lake!First(base) \in base
  <2> HIDE DEF exact, base
  <2> QED BY FirstIs
<1>3. CASE exact # {}
  <2>1. Lake!HomeOf(sets, r) = {Lake!First(exact)}
    BY <1>1, <1>3
  <2>2. \A d \in exact : d \in DOMAIN sets /\ LayerOf[r] # "bronze" /\ sets[d].table = r
    OBVIOUS
  <2> HIDE DEF exact, base
  <2> QED BY <1>2, <1>3, <2>1, <2>2
<1>4. CASE exact = {} /\ base # {}
  <2>1. Lake!HomeOf(sets, r) = {Lake!First(base)}
    BY <1>1, <1>4
  <2>2. \A d \in base : d \in DOMAIN sets /\ BaseOf[r] \in Lake!Bases(sets[d])
    OBVIOUS
  <2>3. LayerOf[r] = "bronze" \/ \A e \in DOMAIN sets : sets[e].table # r
    BY <1>4
  <2> HIDE DEF exact, base
  <2> QED BY <1>2, <1>4, <2>1, <2>2, <2>3
<1>5. CASE exact = {} /\ base = {}
  <2>1. Lake!HomeOf(sets, r) = {}
    BY <1>1, <1>5
  <2>2. LayerOf[r] = "bronze" \/ \A e \in DOMAIN sets : sets[e].table # r
    BY <1>5
  <2> QED BY <2>1, <2>2
<1> QED BY <1>3, <1>4, <1>5

(* A control is shown on the dataset of the table it names, if there is    *)
(* one, and else with the ingestion that fills it, and a table never       *)
(* counts for two datasets (match_controls): for any datasets, controls,   *)
(* layers and order of the map.                                            *)
THEOREM ControlsShown == MapSpec => []ControlsAtHome
<1>1. ControlsAtHome
  <2> SUFFICES ASSUME NEW c \in Lake!Loaded
               PROVE  LET seen == {d \in DOMAIN data : c \in Lake!Matched(data)[d]} IN
                      /\ \A d \in seen : \E r \in c.refs :
                           \/ data[d].table = r /\ LayerOf[r] # "bronze"
                           \/ /\ BaseOf[r] \in Lake!Bases(data[d])
                              /\ LayerOf[r] = "bronze" \/ \A e \in DOMAIN data : data[e].table # r
                      /\ \A r \in c.refs :
                           LayerOf[r] # "bronze" /\ (\E d \in DOMAIN data : data[d].table = r)
                             => \E d \in seen : data[d].table = r
                      /\ Cardinality(seen) <= Cardinality(c.refs)
    BY Zenon DEF ControlsAtHome, Lake!ControlsAtHome, Lake!Cardinality, Cardinality
  <2> DEFINE seen == {d \in DOMAIN data : c \in Lake!Matched(data)[d]}
             H(r) == Lake!HomeOf(data, r)
             named == {r \in c.refs : H(r) # {}}
             home == [r \in named |-> CHOOSE d \in H(r) : TRUE]
  <2>1. \A d : d \in seen <=> \E r \in c.refs : d \in H(r)
    BY HomesAre DEF Lake!Matched
  <2>2. /\ \A d \in seen : \E r \in c.refs :
                           \/ data[d].table = r /\ LayerOf[r] # "bronze"
                           \/ /\ BaseOf[r] \in Lake!Bases(data[d])
                              /\ LayerOf[r] = "bronze" \/ \A e \in DOMAIN data : data[e].table # r
        /\ \A r \in c.refs :
                           LayerOf[r] # "bronze" /\ (\E d \in DOMAIN data : data[d].table = r)
                             => \E d \in seen : data[d].table = r
    <3> HIDE DEF seen
    <3> QED BY <2>1, HomesAre
  <2>3. home \in Surjection(named, seen)
    <3>1. \A r \in named : home[r] \in H(r)
      OBVIOUS
    <3>2. \A d \in seen : \E r \in named : home[r] = d
      <4> SUFFICES ASSUME NEW d \in seen PROVE \E r \in named : home[r] = d
        OBVIOUS
      <4>1. PICK r \in c.refs : d \in H(r)
        BY <2>1
      <4>2. r \in named /\ home[r] \in H(r)
        BY <3>1, <4>1
      <4> QED BY <4>1, <4>2, HomesAre
    <3>3. home \in [named -> seen]
      <4>1. \A r \in named : home[r] \in seen
        BY <2>1, <3>1
      <4> HIDE DEF seen, H
      <4> QED BY <4>1
    <3> HIDE DEF seen, named, home, H
    <3> QED BY <3>2, <3>3 DEF Surjection
  <2>4. IsFiniteSet(c.refs) /\ named \subseteq c.refs
    BY LakeAssumption DEF Lake!Loaded
  <2>5. IsFiniteSet(named) /\ Cardinality(named) <= Cardinality(c.refs)
    <3> HIDE DEF named
    <3> QED BY <2>4, FS_Subset
  <2>6. IsFiniteSet(seen) /\ Cardinality(seen) <= Cardinality(named)
    <3> HIDE DEF seen, named, home
    <3> QED BY <2>3, <2>5, FS_Surjection
  <2>7. Cardinality(seen) \in Nat /\ Cardinality(named) \in Nat /\ Cardinality(c.refs) \in Nat
    <3> HIDE DEF seen, named
    <3> QED BY <2>4, <2>5, <2>6, FS_CardinalityType
  <2>8. Cardinality(seen) <= Cardinality(c.refs)
    <3> HIDE DEF seen, named
    <3> QED BY <2>5, <2>6, <2>7
  <2> QED BY ONLY <2>2, <2>8, Zenon
<1> QED BY <1>1, PTL

-----------------------------------------------------------------------------
(* Where the data of a contract comes from *)

LEMMA FilesAre == ASSUME NEW F, F \subseteq DOMAIN Files
                  PROVE  /\ F \subseteq Nat /\ IsFiniteSet(F)
                         /\ \A S : S \subseteq F /\ S # {} => Lake!Max(S) \in S /\ Lake!Min(S) \in S
<1>1. Len(Files) \in Nat /\ F \subseteq 1..Len(Files)
  BY LakeAssumption
<1>2. IsFiniteSet(F)
  BY <1>1, FS_Interval, FS_Subset
<1>3. ASSUME NEW S, S \subseteq F, S # {} PROVE Lake!Max(S) \in S /\ Lake!Min(S) \in S
  <2>1. S \subseteq Nat /\ S \subseteq 0..Len(Files)
    BY <1>1, <1>3
  <2>2. PICK m \in S : \A x \in S : x <= m
    BY <1>1, <1>3, <2>1, GreatestNat
  <2>3. PICK n \in S : \A x \in S : n <= x
    BY <1>3, <2>1, LeastNat
  <2>4. \A x \in S : m >= x
    BY <2>1, <2>2
  <2> QED BY <2>3, <2>4 DEF Lake!Max, Lake!Min
<1> QED BY <1>1, <1>2, <1>3

(* The first file with an id has it, and there is one. *)
LEMMA AcceptedOnce ==
  ASSUME NEW F, F \subseteq DOMAIN Files
  PROVE  /\ Lake!Accepted(F) \subseteq Lake!Readable(F) /\ Lake!Readable(F) \subseteq F
         /\ \A i, j \in Lake!Accepted(F) : Files[i].id = Files[j].id => i = j
<1>1. Lake!Accepted(F) \subseteq Lake!Readable(F) /\ Lake!Readable(F) \subseteq F
  BY DEF Lake!Accepted, Lake!Readable
<1>2. ASSUME NEW i \in Lake!Accepted(F), NEW j \in Lake!Accepted(F), Files[i].id = Files[j].id PROVE i = j
  <2>1. i <= j /\ j <= i
    BY <1>1, <1>2 DEF Lake!Accepted
  <2>2. i \in Nat /\ j \in Nat
    BY <1>1, FilesAre
  <2> QED BY <2>1, <2>2
<1> QED BY <1>1, <1>2

(* by_table and target *)
LEMMA OwnersAre ==
  ASSUME NEW F, F \subseteq DOMAIN Files, NEW t
  PROVE  /\ (\E i \in Lake!Accepted(F) : Lake!TableOf(Files[i]) = t)
              => \E i \in Lake!Accepted(F) : Lake!TableOf(Files[i]) = t /\ Lake!OwnerOf(F, t) = Files[i].id
         /\ \/ \E i \in Lake!Accepted(F) : Lake!OwnerOf(F, t) = Files[i].id
            \/ Lake!OwnerOf(F, t) = t /\ \A i \in Lake!Accepted(F) : Lake!TableOf(Files[i]) # t
<1> DEFINE owners == {i \in Lake!Accepted(F) : Lake!TableOf(Files[i]) = t}
           models == {i \in Lake!Accepted(F) : /\ Lake!Layer(Files[i]) = "ingestion"
                                               /\ \E m \in Files[i].models : ModelTable[m] = t}
<1>1. Lake!OwnerOf(F, t) = IF owners # {} THEN Files[Lake!Max(owners)].id
                           ELSE IF models # {} THEN Files[Lake!Min(models)].id ELSE t
  BY Zenon DEF Lake!OwnerOf
<1>2. owners \subseteq F /\ models \subseteq F
  BY AcceptedOnce
<1>3. (owners # {} => Lake!Max(owners) \in owners) /\ (models # {} => Lake!Min(models) \in models)
  <2> HIDE DEF owners, models
  <2> QED BY <1>2, FilesAre
<1>4. CASE owners # {}
  BY <1>1, <1>3, <1>4
<1>5. CASE owners = {}
  <2>1. \A i \in Lake!Accepted(F) : Lake!TableOf(Files[i]) # t
    BY <1>5
  <2>2. Lake!OwnerOf(F, t) = IF models # {} THEN Files[Lake!Min(models)].id ELSE t
    BY <1>1, <1>5
  <2>3. models # {} => Lake!Min(models) \in Lake!Accepted(F)
    BY <1>3
  <2> HIDE DEF owners, models
  <2> QED BY <2>1, <2>2, <2>3
<1> QED BY <1>4, <1>5

LEMMA LineageTables ==
  ASSUME NEW F, F \subseteq DOMAIN Files, NEW i \in Lake!Accepted(F)
  PROVE  /\ Lake!Lineage(F, Files[i]) \subseteq Tables /\ Lake!ChecksOn(Files[i]) \subseteq Tables
         /\ Files[i].id \notin Tables /\ Lake!TableOf(Files[i]) \in Tables \union {"none"}
<1> DEFINE c == Files[i]
           sentences == {s \in c.says : s.hint /\ ~s.advice}
           tables == {t \in UNION {s.tables : s \in sentences} : ~(Lake!Layer(c) = "ingestion" /\ LayerOf[t] = "bronze")}
           models == ((UNION {s.models : s \in sentences}) \intersect Lake!KnownModels(F)) \ Words
<1>1. \A j \in Lake!Accepted(F) :
        /\ Files[j].id \notin Tables /\ {Files[j].table, Files[j].checked} \subseteq Tables \union {"none"}
        /\ Files[j].models \subseteq DOMAIN ModelTable /\ \A s \in Files[j].says : s.tables \subseteq Tables
  BY AcceptedOnce, LakeAssumption
<1>2. Lake!Lineage(F, c) = (tables \union {ModelTable[m] : m \in models}) \ {Lake!TableOf(c)}
  BY Zenon DEF Lake!Lineage
<1>3. tables \subseteq Tables
  BY <1>1
<1>4. \A m \in models : ModelTable[m] \in Tables
  <2>1. \A m \in Lake!KnownModels(F) : m \in DOMAIN ModelTable
    BY <1>1 DEF Lake!KnownModels
  <2> QED BY <2>1, LakeAssumption
<1>5. Lake!Lineage(F, c) \subseteq Tables
  <2> HIDE DEF tables, models
  <2> QED BY <1>2, <1>3, <1>4
<1>6. Lake!ChecksOn(c) \subseteq Tables
  BY <1>1 DEF Lake!ChecksOn, Lake!None
<1>7. Lake!TableOf(c) \in Tables \union {"none"}
  BY <1>1 DEF Lake!TableOf, Lake!None
<1> QED BY <1>1, <1>5, <1>6, <1>7

LEMMA LineageIs ==
  ASSUME NEW F, F \subseteq DOMAIN Files, NEW g, g = Lake!Graph(F)
  PROVE  LET contracts == {Files[i] : i \in Lake!Accepted(F)}
             Described(t) == \E c \in contracts : Lake!TableOf(c) = t
         IN  /\ Cardinality(F) = Cardinality({c.id : c \in contracts}) + Cardinality(g.errors) + Cardinality(g.quality)
             /\ \A t \in Tables : Described(t) => t \notin DOMAIN g.nodes
             /\ \A e \in g.derives : {e[1], e[2]} \subseteq DOMAIN g.nodes
             /\ \A c \in contracts : \A t \in Lake!Lineage(F, c) :
                  Described(t) => \E x \in contracts : Lake!TableOf(x) = t /\ (x = c \/ <<x.id, c.id>> \in g.derives)
<1> DEFINE contracts == {Files[i] : i \in Lake!Accepted(F)}
           ids == {c.id : c \in contracts}
           from(c) == {<<Lake!OwnerOf(F, t), c.id>> : t \in Lake!Lineage(F, c)}
           onto(c) == {<<c.id, Lake!OwnerOf(F, t)>> : t \in Lake!ChecksOn(c)}
           derives == {e \in UNION {from(c) \union onto(c) : c \in contracts} : e[1] # e[2]}
           cited == {t \in Tables : \E e \in derives : t \in {e[1], e[2]}}
<1>1. /\ g.nodes = [d \in ids \union cited |->
                      IF d \in cited THEN Lake!TableAttrs(d) ELSE Lake!Attrs(CHOOSE c \in contracts : c.id = d)]
      /\ g.derives = derives
      /\ g.errors = Lake!Errors(F) /\ g.quality = Lake!QualityTables(F)
  BY Zenon DEF Lake!Graph
<1>2. DOMAIN g.nodes = ids \union cited
  BY <1>1
<1>3. \A e \in derives : \E c \in contracts :
        /\ e[1] # e[2]
        /\ \/ \E t \in Lake!Lineage(F, c) : e = <<Lake!OwnerOf(F, t), c.id>>
           \/ \E t \in Lake!ChecksOn(c) : e = <<c.id, Lake!OwnerOf(F, t)>>
  OBVIOUS
<1>4. \A c \in contracts : /\ Lake!Lineage(F, c) \subseteq Tables /\ Lake!ChecksOn(c) \subseteq Tables
                           /\ c.id \notin Tables /\ Lake!TableOf(c) \in Tables \union {"none"}
  BY LineageTables
<1>5. \A t : /\ (\E c \in contracts : Lake!TableOf(c) = t)
                  => \E c \in contracts : Lake!TableOf(c) = t /\ Lake!OwnerOf(F, t) = c.id
             /\ \/ \E c \in contracts : Lake!OwnerOf(F, t) = c.id
                \/ Lake!OwnerOf(F, t) = t /\ \A c \in contracts : Lake!TableOf(c) # t
  BY OwnersAre
<1>6. \A c, x \in contracts : c.id = x.id => c = x
  BY AcceptedOnce
<1>7. \A c \in contracts : c.id \in ids
  OBVIOUS
<1>8. \A t \in cited : t \in Tables /\ \E e \in derives : t = e[1] \/ t = e[2]
  OBVIOUS
<1>9. \A t \in Tables : \A e \in derives : t = e[1] \/ t = e[2] => t \in cited
  OBVIOUS
<1>10. \A c \in contracts : \A t \in Lake!Lineage(F, c) :
         Lake!OwnerOf(F, t) # c.id => <<Lake!OwnerOf(F, t), c.id>> \in derives
  OBVIOUS
<1>11. \A d \in ids : \E c \in contracts : d = c.id
  OBVIOUS
<1>12. Cardinality(F) = Cardinality(ids) + Cardinality(g.errors) + Cardinality(g.quality)
  <2> DEFINE A == Lake!Accepted(F)
             f == [i \in A |-> Files[i].id]
             E == Lake!Errors(F)
             Q == Lake!QualityTables(F)
  <2>1. /\ F = (A \union E) \union Q /\ A \intersect E = {} /\ (A \union E) \intersect Q = {}
        /\ A \subseteq F /\ E \subseteq F /\ Q \subseteq F
    BY DEF Lake!Accepted, Lake!Readable, Lake!Errors, Lake!QualityTables
  <2>2. IsFiniteSet(A) /\ IsFiniteSet(E) /\ IsFiniteSet(Q)
    <3>1. IsFiniteSet(F)
      BY FilesAre
    <3> HIDE DEF A, E, Q
    <3> QED BY <2>1, <3>1, FS_Subset
  <2>3. Cardinality(F) = Cardinality(A) + Cardinality(E) + Cardinality(Q)
    <3> HIDE DEF A, E, Q
    <3>1. IsFiniteSet(A \union E) /\ Cardinality(A \union E) = Cardinality(A) + Cardinality(E) - Cardinality({})
      BY <2>1, <2>2, FS_Union
    <3>2. Cardinality((A \union E) \union Q) = Cardinality(A \union E) + Cardinality(Q) - Cardinality({})
      BY <2>1, <2>2, <3>1, FS_Union
    <3>3. Cardinality({}) = 0 /\ Cardinality(A) \in Nat /\ Cardinality(E) \in Nat /\ Cardinality(Q) \in Nat
      BY <2>2, FS_EmptySet, FS_CardinalityType
    <3> QED BY <2>1, <3>1, <3>2, <3>3
  <2>4. f \in Bijection(A, ids)
    <3>1. \A i, j \in A : f[i] = f[j] => i = j
      BY AcceptedOnce
    <3>2. f \in [A -> ids] /\ \A d \in ids : \E i \in A : f[i] = d
      OBVIOUS
    <3> HIDE DEF A, f, ids
    <3> QED BY <3>1, <3>2 DEF Bijection, Injection, Surjection, IsInjective
  <2>5. Cardinality(ids) = Cardinality(A)
    <3> HIDE DEF A, f, ids
    <3> QED BY <2>2, <2>4, FS_Bijection DEF ExistsBijection
  <2> HIDE DEF A, E, Q, ids
  <2> QED BY <1>1, <2>3, <2>5 DEF E, Q
<1>13. \A t \in Tables : (\E c \in contracts : Lake!TableOf(c) = t) => t \notin ids \union cited
  <2> SUFFICES ASSUME NEW t \in Tables, \E c \in contracts : Lake!TableOf(c) = t, t \in cited PROVE FALSE
    <3> HIDE DEF contracts, cited, ids
    <3> QED BY <1>4, <1>11
  <2> HIDE DEF contracts, cited, ids, derives, from, onto
  <2>1. PICK e \in derives : t = e[1] \/ t = e[2]
    BY <1>8
  <2>2. PICK c \in contracts : \/ \E s \in Lake!Lineage(F, c) : e = <<Lake!OwnerOf(F, s), c.id>>
                               \/ \E s \in Lake!ChecksOn(c) : e = <<c.id, Lake!OwnerOf(F, s)>>
    BY <1>3
  <2>3. PICK s : t = Lake!OwnerOf(F, s)
    BY <1>4, <2>1, <2>2
  <2>4. ~(\E x \in contracts : Lake!OwnerOf(F, s) = x.id)
    BY <1>4, <2>3
  <2> QED BY <1>5, <2>3, <2>4
<1>14. \A e \in derives : {e[1], e[2]} \subseteq ids \union cited
  <2> SUFFICES ASSUME NEW e \in derives PROVE e[1] \in ids \union cited /\ e[2] \in ids \union cited
    OBVIOUS
  <2> HIDE DEF contracts, cited, ids, derives, from, onto
  <2>1. PICK c \in contracts : \/ \E s \in Lake!Lineage(F, c) : e = <<Lake!OwnerOf(F, s), c.id>>
                               \/ \E s \in Lake!ChecksOn(c) : e = <<c.id, Lake!OwnerOf(F, s)>>
    BY <1>3
  <2>2. PICK s \in Tables : e = <<Lake!OwnerOf(F, s), c.id>> \/ e = <<c.id, Lake!OwnerOf(F, s)>>
    BY <1>4, <2>1
  <2>3. Lake!OwnerOf(F, s) \in ids \/ Lake!OwnerOf(F, s) = s
    BY <1>5, <1>7
  <2> QED BY <1>7, <1>9, <2>2, <2>3
<1>15. ASSUME NEW c \in contracts, NEW t \in Lake!Lineage(F, c), \E x \in contracts : Lake!TableOf(x) = t
       PROVE  \E x \in contracts : Lake!TableOf(x) = t /\ (x = c \/ <<x.id, c.id>> \in derives)
  <2> HIDE DEF contracts, derives
  <2>1. PICK x \in contracts : Lake!TableOf(x) = t /\ Lake!OwnerOf(F, t) = x.id
    BY <1>5, <1>15
  <2>2. x = c \/ <<x.id, c.id>> \in derives
    BY <1>6, <1>10, <2>1
  <2> QED BY <2>1, <2>2
<1>16. DOMAIN g.nodes = ids \union cited /\ g.derives = derives
  BY <1>1, <1>2
<1> HIDE DEF derives, cited
<1> QED BY <1>12, <1>13, <1>14, <1>15, <1>16

(* Every file of the contracts that a run knows, read or stored, is a      *)
(* dataset, a table of results or an error; every end of a link is on the  *)
(* map; and an origin that a contract describes is that contract, never a  *)
(* table beside it (build_graph): for any contracts, whatever they say.    *)
THEOREM LineageKept == MapSpec => []LineageSound
<1>1. LakeInv => LineageSound
  <2> SUFFICES ASSUME LakeInv, runPc = "collected"
               PROVE  LET F == mem.files
                          g == mem.graph
                          contracts == {Files[i] : i \in Lake!Accepted(F)}
                          Described(t) == \E c \in contracts : Lake!TableOf(c) = t
                      IN  /\ Cardinality(F) = Cardinality({c.id : c \in contracts}) + Cardinality(g.errors) + Cardinality(g.quality)
                          /\ \A t \in Tables : Described(t) => t \notin DOMAIN g.nodes
                          /\ \A e \in g.derives : {e[1], e[2]} \subseteq DOMAIN g.nodes
                          /\ \A c \in contracts : \A t \in Lake!Lineage(F, c) :
                               Described(t) => \E x \in contracts : Lake!TableOf(x) = t /\ (x = c \/ <<x.id, c.id>> \in g.derives)
    BY Zenon DEF LineageSound, Lake!LineageSound, Lake!Cardinality, Cardinality
  <2>1. mem.files \subseteq DOMAIN Files /\ mem.graph = Lake!Graph(mem.files)
    BY DEF LakeInv
  <2> QED BY <2>1, LineageIs, Zenon
<1> QED BY <1>1, LakeKept, PartLake, PTL

-----------------------------------------------------------------------------
(* The assistant *)

TurnsOf(h) == Chat!ModelTurns(h)
AskedOf(h) == UNION {Chat!ToSet(c.ids) : c \in UNION {Chat!ToSet(h[i].calls) : i \in TurnsOf(h)}}
ModelsOf == Chat!Models(config, conv.provider)

(* A conversation: every call of every turn but those that are left has    *)
(* its result, in the order of the calls and before the next turn.         *)
Heard(h, left) ==
  /\ Listed(h) /\ Listed(left) /\ (h # <<>> => h[1].role = "model") /\ (h = <<>> => left = <<>>)
  /\ \A i \in TurnsOf(h) : LET n == Len(h[i].calls) IN
       /\ h[i].calls \in Turns
       /\ \A k \in 1..n : i + k \in DOMAIN h => h[i + k].role = "tool" /\ h[i + k].id = h[i].calls[k].id
       /\ \/ i + n + 1 \in DOMAIN h /\ h[i + n + 1].role = "model"
          \/ /\ i + n = Len(h) + Len(left) /\ Len(left) <= n
             /\ \A k \in 1..Len(left) : left[k] = h[i].calls[n - Len(left) + k]
(* The last turn is of that model. *)
LastBy(h, m) == \A i \in TurnsOf(h) : (\A j \in TurnsOf(h) : j <= i) => h[i].by = m
Talking ==
  /\ conv = [provider |-> conv.provider, history |-> conv.history, calls |-> conv.calls,
             steps |-> conv.steps, lit |-> conv.lit, current |-> conv.current]
  /\ Heard(conv.history, conv.calls)
  /\ conv.steps \in Nat /\ conv.steps < MaxSteps
  /\ conv.provider # config.provider => config.fallback
  /\ Listed(queue) /\ queue # <<>> /\ Chat!ToSet(queue) \subseteq Chat!ToSet(ModelsOf) /\ Len(queue) <= Len(ModelsOf)
  /\ \A i \in TurnsOf(conv.history) : conv.history[i].by \in Chat!ToSet(ModelsOf)
  /\ Listed(conv.lit) /\ IsInjective(conv.lit) /\ Chat!ToSet(conv.lit) \subseteq AskedOf(conv.history) \intersect Known
AtStep ==
  /\ conv.calls = <<>> /\ Cardinality(TurnsOf(conv.history)) = conv.steps
  /\ Len(queue) = Len(ModelsOf) => LastBy(conv.history, Head(queue))
AtTools ==
  /\ conv.history # <<>> /\ Cardinality(TurnsOf(conv.history)) = conv.steps + 1
  /\ conv.current = Head(queue) /\ LastBy(conv.history, conv.current)
Honest ==
  /\ ToSet(out.highlight) \subseteq (AskedOf(conv.history) \union out.refs) \intersect Known
  /\ out.refs \union ToSet(out.highlight) \subseteq out.labels
  /\ IsInjective(out.highlight) /\ Len(out.highlight) <= MaxLit
  /\ out.model \in ToSet(Chat!Models(config, out.provider))
  /\ conv.steps < MaxSteps => out.model = Head(queue)
  /\ out.fallback => config.fallback
  /\ out.provider = config.provider <=> ~out.fallback
ChatInv ==
  /\ chatPc \in {"idle", "ask", "tools", "done"}
  /\ chatPc # "done" => out.error # "none"
  /\ chatPc \in {"ask", "tools"} => Talking
  /\ chatPc = "ask" => AtStep
  /\ chatPc = "tools" => AtTools
  /\ out.error = "none" => Honest

(* Sequences of the assistant *)

LEMMA ChatToSet == ASSUME NEW s PROVE Chat!ToSet(s) = ToSet(s) /\ ToSet(s) = {s[i] : i \in DOMAIN s}
  BY Zenon DEF Chat!ToSet, ToSet

LEMMA ChatSetToSeq ==
  ASSUME NEW S, IsFiniteSet(S)
  PROVE  LET s == SetToSeq(S) IN
         /\ Chat!SetToSeq(S) = s
         /\ Listed(s) /\ ToSet(s) = S /\ IsInjective(s) /\ Len(s) = Cardinality(S)
<1>1. Chat!SetToSeq(S) = SetToSeq(S)
  BY Zenon DEF Chat!SetToSeq, Chat!IsInjective, IsInjective, Chat!Cardinality, Cardinality, SetToSeq
<1> QED BY <1>1, SetToSeqIs

LEMMA WithoutIs ==
  ASSUME NEW s, NEW m, Listed(s)
  PROVE  LET r == Chat!Without(s, m) IN
         /\ Listed(r) /\ ToSet(r) \subseteq ToSet(s) /\ Len(r) <= Len(s)
         /\ m \in ToSet(s) => Len(r) = Len(s) - 1
<1>1. Len(s) \in Nat /\ DOMAIN s = 1..Len(s)
  BY ListedIs
<1>2. CASE m \in ToSet(s)
  <2> DEFINE p == CHOOSE i \in DOMAIN s : s[i] = m
  <2>1. p \in 1..Len(s)
    BY <1>1, <1>2, ChatToSet
  <2>2. Chat!Without(s, m) = SubSeq(s, 1, p - 1) \o SubSeq(s, p + 1, Len(s))
    BY <1>2, ChatToSet DEF Chat!Without, Chat!RemoveAt
  <2> HIDE DEF p
  <2>3. p - 1 \in Nat /\ p - 1 <= Len(s) /\ p \in Nat /\ p <= Len(s)
    BY <1>1, <2>1
  <2>4. /\ Listed(SubSeq(s, 1, p - 1)) /\ Len(SubSeq(s, 1, p - 1)) = p - 1
        /\ ToSet(SubSeq(s, 1, p - 1)) \subseteq ToSet(s)
    BY <2>3, PrefixIs
  <2>5. /\ Listed(SubSeq(s, p + 1, Len(s))) /\ Len(SubSeq(s, p + 1, Len(s))) = Len(s) - p
        /\ ToSet(SubSeq(s, p + 1, Len(s))) \subseteq ToSet(s)
    BY <2>3, SuffixIs
  <2> DEFINE a == SubSeq(s, 1, p - 1)
             b == SubSeq(s, p + 1, Len(s))
  <2>9. Chat!Without(s, m) = a \o b /\ Listed(a) /\ Listed(b) /\ Len(a) = p - 1 /\ Len(b) = Len(s) - p
    BY <2>2, <2>4, <2>5
  <2>10. Listed(a \o b) /\ Len(a \o b) = Len(a) + Len(b) /\ ToSet(a \o b) = ToSet(a) \union ToSet(b)
    <3> HIDE DEF a, b
    <3> QED BY <2>9, ConcatIs
  <2>6. /\ Listed(Chat!Without(s, m)) /\ Len(Chat!Without(s, m)) = (p - 1) + (Len(s) - p)
        /\ ToSet(Chat!Without(s, m)) = ToSet(SubSeq(s, 1, p - 1)) \union ToSet(SubSeq(s, p + 1, Len(s)))
    BY ONLY <2>9, <2>10
  <2>7. (p - 1) + (Len(s) - p) = Len(s) - 1 /\ Len(s) - 1 <= Len(s)
    BY <1>1, <2>3
  <2> QED BY <2>4, <2>5, <2>6, <2>7
<1>3. CASE m \notin ToSet(s)
  <2>1. Chat!Without(s, m) = s
    BY <1>3, ChatToSet DEF Chat!Without
  <2>2. Len(s) <= Len(s)
    BY <1>1
  <2> QED BY <1>3, <2>1, <2>2
<1> QED BY <1>2, <1>3

LEMMA PickedIs ==
  ASSUME NEW s, NEW I, Listed(s), I \subseteq DOMAIN s
  PROVE  LET r == Chat!Picked(s, I) IN
         /\ Listed(r) /\ ToSet(r) = {s[i] : i \in I}
         /\ (\A i, j \in I : s[i] = s[j] => i = j) => IsInjective(r)
<1> DEFINE upto(k) == {i \in I : i <= k}
           n == Cardinality(I)
           f == [k \in I |-> Cardinality(upto(k))]
           r == Chat!Picked(s, I)
           nth(x) == CHOOSE k \in I : Cardinality({i \in I : i <= k}) = x
<1>1. IsFiniteSet(I) /\ n \in Nat /\ I \subseteq Nat
  <2>1. Len(s) \in Nat /\ DOMAIN s = 1..Len(s)
    BY ListedIs
  <2>2. IsFiniteSet(1..Len(s)) /\ I \subseteq 1..Len(s)
    BY <2>1, FS_Interval
  <2>3. IsFiniteSet(I)
    BY <2>2, FS_Subset
  <2> QED BY <2>2, <2>3, FS_CardinalityType
<1>2. \A k \in I : upto(k) \subseteq I /\ IsFiniteSet(upto(k)) /\ Cardinality(upto(k)) \in 1..n
  <2> SUFFICES ASSUME NEW k \in I PROVE upto(k) \subseteq I /\ IsFiniteSet(upto(k)) /\ Cardinality(upto(k)) \in 1..n
    OBVIOUS
  <2>1. upto(k) \subseteq I /\ k \in upto(k)
    BY <1>1
  <2> HIDE DEF upto
  <2>2. IsFiniteSet(upto(k)) /\ Cardinality(upto(k)) <= n /\ Cardinality(upto(k)) \in Nat
    BY <1>1, <2>1, FS_Subset, FS_CardinalityType
  <2>3. Cardinality(upto(k)) # 0
    BY <2>1, <2>2, FS_EmptySet
  <2> QED BY <1>1, <2>1, <2>2, <2>3
<1>3. \A j, k \in I : Cardinality(upto(j)) = Cardinality(upto(k)) => ~(j < k)
  <2> SUFFICES ASSUME NEW j \in I, NEW k \in I, j < k, Cardinality(upto(j)) = Cardinality(upto(k)) PROVE FALSE
    OBVIOUS
  <2>1. upto(j) \subseteq upto(k) /\ k \in upto(k) /\ k \notin upto(j)
    BY <1>1
  <2>2. IsFiniteSet(upto(k))
    BY <1>2
  <2> HIDE DEF upto
  <2> QED BY <2>1, <2>2, FS_Subset
<1>4. f \in Injection(I, 1..n)
  <2>1. \A k \in I : f[k] = Cardinality(upto(k)) /\ f[k] \in 1..n
    BY <1>2
  <2>2. f \in [I -> 1..n]
    <3> HIDE DEF n, upto
    <3> QED BY <2>1
  <2>3. \A j, k \in I : f[j] = f[k] => j = k
    <3>1. \A j, k \in I : j < k \/ k < j \/ j = k
      BY <1>1
    <3> HIDE DEF f, upto
    <3> QED BY <1>3, <2>1, <3>1
  <2> HIDE DEF f
  <2> QED BY <2>2, <2>3 DEF Injection, IsInjective
<1>5. f \in Surjection(I, 1..n)
  <2>1. IsFiniteSet(1..n) /\ Cardinality(1..n) = n
    BY <1>1, FS_Interval
  <2> HIDE DEF f
  <2> QED BY <1>4, <2>1, FS_Injection
<1>6. \A x \in 1..n : nth(x) \in I /\ f[nth(x)] = x
  <2> SUFFICES ASSUME NEW x \in 1..n PROVE nth(x) \in I /\ f[nth(x)] = x
    OBVIOUS
  <2>1. \E k \in I : f[k] = x
    <3> HIDE DEF f, n
    <3> QED BY <1>5 DEF Surjection
  <2>2. \A k \in I : f[k] = Cardinality({i \in I : i <= k})
    OBVIOUS
  <2>3. nth(x) \in I /\ Cardinality({i \in I : i <= nth(x)}) = x
    BY <2>1, <2>2
  <2> HIDE DEF nth, f, n
  <2> QED BY <2>2, <2>3
<1>7. r = [x \in 1..n |-> s[nth(x)]]
  BY Zenon DEF Chat!Picked, Chat!Cardinality, Cardinality
<1> HIDE DEF nth, r, n
<1>8. Listed(r) /\ Len(r) = n /\ DOMAIN r = 1..n /\ \A x \in 1..n : r[x] = s[nth(x)]
  <2>1. DOMAIN r = 1..n /\ (\A x \in 1..n : r[x] = s[nth(x)]) /\ r = [x \in 1..n |-> r[x]]
    BY <1>7
  <2> QED BY <1>1, <2>1, ListedFun
<1>9. ToSet(r) = {s[i] : i \in I}
  <2>1. \A x \in 1..n : r[x] \in {s[i] : i \in I}
    BY <1>6, <1>8
  <2>2. \A i \in I : f[i] \in 1..n /\ nth(f[i]) = i
    <3> HIDE DEF f
    <3> QED BY <1>4, <1>6 DEF Injection, IsInjective
  <2>3. \A i \in I : \E x \in 1..n : r[x] = s[i]
    <3> HIDE DEF f
    <3> QED BY <1>8, <2>2
  <2> QED BY <1>8, <2>1, <2>3, ChatToSet
<1>10. (\A i, j \in I : s[i] = s[j] => i = j) => IsInjective(r)
  <2> SUFFICES ASSUME \A i, j \in I : s[i] = s[j] => i = j, NEW a \in 1..n, NEW b \in 1..n, r[a] = r[b] PROVE a = b
    BY <1>8 DEF IsInjective
  <2>1. nth(a) = nth(b)
    <3> HIDE DEF f
    <3>1. nth(a) \in I /\ nth(b) \in I /\ s[nth(a)] = s[nth(b)]
      BY <1>6, <1>8
    <3> QED BY <3>1
  <2> HIDE DEF f
  <2> QED BY <1>6, <2>1
<1> QED BY <1>8, <1>9, <1>10 DEF r

LEMMA ModelsAre ==
  ASSUME NEW settings, NEW p
  PROVE  Listed(Chat!Models(settings, p)) /\ Chat!Models(settings, p) # <<>>
<1>1. Listed(Fallbacks)
  BY ChatAssumption, ListedIf
<1> DEFINE others == {i \in DOMAIN Fallbacks : Fallbacks[i] # settings.gemini}
           rest == Chat!Picked(Fallbacks, others)
<1>2. Listed(rest)
  BY <1>1, PickedIs, others \subseteq DOMAIN Fallbacks
<1>3. Listed(<<settings.gemini>> \o rest) /\ <<settings.gemini>> \o rest # <<>>
  BY <1>2, OntoOne
<1>4. Listed(<<"groq">>) /\ <<"groq">> # <<>>
  BY SingleIs
<1> QED BY <1>3, <1>4 DEF Chat!Models

(* The models in the order of a step: those of the settings. *)
LEMMA OrderIs ==
  ASSUME NEW settings, NEW c
  PROVE  LET q == Chat!InOrder(settings, c)
             models == Chat!Models(settings, c.provider)
         IN  /\ Listed(q) /\ q # <<>> /\ ToSet(q) \subseteq ToSet(models) /\ Len(q) <= Len(models)
             /\ c.current \in ToSet(models) => Head(q) = c.current
<1> DEFINE models == Chat!Models(settings, c.provider)
           rest == Chat!Without(models, c.current)
<1>1. Listed(models) /\ models # <<>> /\ Len(models) \in Nat
  BY ModelsAre, ListedIs
<1>2. Chat!InOrder(settings, c) = IF c.current \in ToSet(models) THEN <<c.current>> \o rest ELSE models
  BY ChatToSet DEF Chat!InOrder
<1> HIDE DEF models
<1>3. /\ Listed(rest) /\ ToSet(rest) \subseteq ToSet(models) /\ Len(rest) <= Len(models)
      /\ c.current \in ToSet(models) => Len(rest) = Len(models) - 1
  BY <1>1, WithoutIs
<1> HIDE DEF rest
<1>4. CASE c.current \in ToSet(models)
  <2> DEFINE q == <<c.current>> \o rest
  <2>1. /\ Listed(q) /\ q # <<>> /\ Len(q) = Len(rest) + 1 /\ Head(q) = c.current
        /\ ToSet(q) = {c.current} \union ToSet(rest)
    BY <1>3, OntoOne
  <2>2. Len(rest) + 1 = Len(models) /\ Len(models) <= Len(models)
    BY <1>1, <1>3, <1>4
  <2>3. Chat!InOrder(settings, c) = q
    BY <1>2, <1>4
  <2> HIDE DEF q
  <2> QED BY <1>3, <1>4, <2>1, <2>2, <2>3 DEF models
<1>5. CASE c.current \notin ToSet(models)
  <2>1. Chat!InOrder(settings, c) = models /\ Len(models) <= Len(models)
    BY <1>1, <1>2, <1>5
  <2> QED BY <1>1, <1>5, <2>1 DEF models
<1> QED BY <1>4, <1>5

LEMMA LitIs ==
  ASSUME NEW l, NEW call, Listed(l), IsInjective(l), Listed(call.ids)
  PROVE  LET r == Chat!Lit(l, call) IN
         Listed(r) /\ IsInjective(r) /\ ToSet(r) \subseteq ToSet(l) \union (ToSet(call.ids) \intersect Known)
<1> DEFINE ids == call.ids
           new == {k \in DOMAIN ids : ids[k] \in Known \ ToSet(l) /\ \A j \in 1..(k - 1) : ids[j] # ids[k]}
           r == Chat!Picked(ids, new)
<1>1. Chat!Lit(l, call) = IF call.tool # "evidenzia" THEN l ELSE l \o r
  BY ChatToSet, Zenon DEF Chat!Lit
<1>2. new \subseteq DOMAIN ids /\ \A i \in new : ids[i] \in Known \ ToSet(l) /\ ids[i] \in ToSet(ids)
  BY ChatToSet
<1>3. \A i, j \in new : ids[i] = ids[j] => i = j
  <2> SUFFICES ASSUME NEW i \in new, NEW j \in new, ids[i] = ids[j], i # j PROVE FALSE
    OBVIOUS
  <2>1. DOMAIN ids = 1..Len(ids) /\ Len(ids) \in Nat
    BY ListedIs
  <2>2. i \in 1..Len(ids) /\ j \in 1..Len(ids)
    BY <2>1
  <2>3. i \in 1..(j - 1) \/ j \in 1..(i - 1)
    BY <2>1, <2>2
  <2> QED BY <2>3
<1>4. Listed(r) /\ ToSet(r) = {ids[i] : i \in new} /\ IsInjective(r)
  <2> HIDE DEF new
  <2> QED BY <1>2, <1>3, PickedIs
<1> HIDE DEF r
<1>5. ToSet(r) \subseteq Known \ ToSet(l) /\ ToSet(r) \subseteq ToSet(ids)
  <2> HIDE DEF new
  <2> QED BY <1>2, <1>4
<1>6. Listed(l \o r) /\ ToSet(l \o r) = ToSet(l) \union ToSet(r) /\ IsInjective(l \o r)
  BY <1>4, <1>5, ConcatIs, InjectiveConcat
<1> QED BY <1>1, <1>5, <1>6

LEMMA AnswerIs ==
  ASSUME NEW c, NEW cited, Chat!Answer(c, cited), Listed(c.lit), IsInjective(c.lit), ToSet(c.lit) \subseteq Known
  PROVE  /\ chatPc' = "done" /\ conv' = c /\ UNCHANGED <<queue, tries>>
         /\ out'.error = "none" /\ out'.refs \subseteq Known
         /\ ToSet(out'.highlight) \subseteq ToSet(c.lit) \union out'.refs
         /\ out'.refs \union ToSet(out'.highlight) \subseteq out'.labels
         /\ IsInjective(out'.highlight) /\ Len(out'.highlight) <= MaxLit
         /\ out'.provider = c.provider /\ out'.model = c.current /\ (out'.fallback <=> c.provider # config.provider)
<1> DEFINE known == cited \intersect Known
           added == Chat!SetToSeq(known \ ToSet(c.lit))
           lit == c.lit \o added
           n == Chat!Min({Len(lit), MaxLit})
           shownIds == SubSeq(lit, 1, n)
<1>1. /\ chatPc' = "done" /\ conv' = c /\ UNCHANGED <<queue, tries>>
      /\ out' = [error |-> "none", refs |-> known, labels |-> ToSet(lit) \union known, highlight |-> shownIds,
                 provider |-> c.provider, model |-> c.current, fallback |-> c.provider # config.provider]
  BY ChatToSet DEF Chat!Answer, Chat!Named, Chat!None
<1>2. Listed(added) /\ ToSet(added) = known \ ToSet(c.lit) /\ IsInjective(added)
  <2>1. IsFiniteSet(known \ ToSet(c.lit))
    <3>1. known \ ToSet(c.lit) \subseteq Known
      OBVIOUS
    <3> QED BY <3>1, ChatAssumption, FS_Subset
  <2> HIDE DEF known
  <2> QED BY <2>1, ChatSetToSeq
<1> HIDE DEF added
<1>3. Listed(lit) /\ ToSet(lit) = ToSet(c.lit) \union known /\ IsInjective(lit)
  <2>1. ToSet(c.lit) \intersect ToSet(added) = {}
    BY <1>2
  <2>2. Listed(lit) /\ ToSet(lit) = ToSet(c.lit) \union ToSet(added)
    BY <1>2, ConcatIs
  <2>3. IsInjective(lit)
    BY <1>2, <2>1, InjectiveConcat
  <2> QED BY <1>2, <2>2, <2>3
<1> HIDE DEF lit
<1>4. n \in Nat /\ n <= Len(lit) /\ n <= MaxLit
  <2>1. Len(lit) \in Nat /\ MaxLit \in Nat
    BY <1>3, ListedIs, ChatAssumption
  <2>2. \E m \in {Len(lit), MaxLit} : \A x \in {Len(lit), MaxLit} : m <= x
    BY <2>1
  <2>3. n \in {Len(lit), MaxLit} /\ \A x \in {Len(lit), MaxLit} : n <= x
    BY <2>2 DEF Chat!Min
  <2> HIDE DEF n
  <2> QED BY <2>1, <2>3
<1> HIDE DEF n
<1>5. /\ Listed(shownIds) /\ Len(shownIds) = n /\ ToSet(shownIds) \subseteq ToSet(lit)
      /\ \A i \in 1..n : shownIds[i] = lit[i]
  BY <1>3, <1>4, PrefixIs
<1>6. IsInjective(shownIds)
  <2>1. DOMAIN shownIds = 1..n /\ DOMAIN lit = 1..Len(lit) /\ Len(lit) \in Nat
    BY <1>3, <1>5, ListedIs
  <2>2. \A i \in 1..n : i \in 1..Len(lit)
    BY <1>4, <2>1
  <2> HIDE DEF shownIds
  <2> QED BY <1>3, <1>5, <2>1, <2>2 DEF IsInjective
<1> HIDE DEF shownIds, known
<1>7. known \subseteq Known
  BY DEF known
<1>8. /\ out'.error = "none" /\ out'.refs = known /\ out'.labels = ToSet(lit) \union known /\ out'.highlight = shownIds
      /\ out'.provider = c.provider /\ out'.model = c.current
  BY <1>1
<1>9. out'.fallback <=> c.provider # config.provider
  BY <1>1, Zenon
<1> QED BY <1>1, <1>3, <1>4, <1>5, <1>6, <1>7, <1>8, <1>9

LEMMA TurnsAre ==
  ASSUME NEW h, NEW e, Listed(h)
  PROVE  /\ TurnsOf(h) \subseteq 1..Len(h) /\ IsFiniteSet(TurnsOf(h)) /\ Cardinality(TurnsOf(h)) \in Nat
         /\ \A i \in 1..Len(h) : i \in TurnsOf(h) <=> h[i].role = "model"
         /\ e.role = "model" => /\ TurnsOf(Append(h, e)) = TurnsOf(h) \union {Len(h) + 1}
                                /\ Cardinality(TurnsOf(Append(h, e))) = Cardinality(TurnsOf(h)) + 1
         /\ e.role = "tool" => TurnsOf(Append(h, e)) = TurnsOf(h)
<1>1. Len(h) \in Nat /\ DOMAIN h = 1..Len(h)
  BY ListedIs
<1>2. /\ DOMAIN Append(h, e) = 1..(Len(h) + 1) /\ \A i \in 1..Len(h) : Append(h, e)[i] = h[i]
      /\ Append(h, e)[Len(h) + 1] = e
  BY AppendIs
<1>3. \A i : i \in 1..(Len(h) + 1) <=> i \in 1..Len(h) \/ i = Len(h) + 1
  BY <1>1
<1>4. TurnsOf(h) = {i \in 1..Len(h) : h[i].role = "model"}
  BY <1>1 DEF TurnsOf, Chat!ModelTurns
<1>5. TurnsOf(Append(h, e)) = {i \in 1..(Len(h) + 1) : Append(h, e)[i].role = "model"}
  BY <1>2 DEF TurnsOf, Chat!ModelTurns
<1>6. IsFiniteSet(TurnsOf(h)) /\ Cardinality(TurnsOf(h)) \in Nat
  <2>1. IsFiniteSet(1..Len(h)) /\ TurnsOf(h) \subseteq 1..Len(h)
    BY <1>1, <1>4, FS_Interval
  <2> QED BY <2>1, FS_Subset, FS_CardinalityType
<1>7. e.role = "model" => TurnsOf(Append(h, e)) = TurnsOf(h) \union {Len(h) + 1}
  BY <1>2, <1>3, <1>4, <1>5
<1>8. e.role = "tool" => TurnsOf(Append(h, e)) = TurnsOf(h)
  BY <1>2, <1>3, <1>4, <1>5
<1>9. Len(h) + 1 \notin TurnsOf(h)
  BY <1>1, <1>4
<1>10. Cardinality(TurnsOf(h) \union {Len(h) + 1}) = Cardinality(TurnsOf(h)) + 1
  BY <1>6, <1>9, FS_AddElement
<1> QED BY <1>4, <1>6, <1>7, <1>8, <1>10

LEMMA HeardTurn ==
  ASSUME NEW h, NEW turn \in Turns, NEW e, e.role = "model", e.calls = turn, Heard(h, <<>>)
  PROVE  Heard(Append(h, e), turn)
<1> DEFINE g == Append(h, e)
<1>1. /\ Listed(h) /\ (h # <<>> => h[1].role = "model")
      /\ \A i \in TurnsOf(h) : LET n == Len(h[i].calls) IN
           /\ h[i].calls \in Turns
           /\ \A k \in 1..n : i + k \in DOMAIN h => h[i + k].role = "tool" /\ h[i + k].id = h[i].calls[k].id
           /\ (i + n + 1 \in DOMAIN h /\ h[i + n + 1].role = "model") \/ i + n = Len(h) + Len(<<>>)
  BY DEF Heard
<1>2. Len(h) \in Nat /\ DOMAIN h = 1..Len(h) /\ (h # <<>> => Len(h) # 0) /\ (h = <<>> => Len(h) = 0)
  BY <1>1, ListedIs
<1>3. /\ Listed(g) /\ g # <<>> /\ Len(g) = Len(h) + 1 /\ DOMAIN g = 1..(Len(h) + 1)
      /\ (\A i \in 1..Len(h) : g[i] = h[i]) /\ g[Len(h) + 1] = e
  BY <1>1, AppendIs
<1>4. TurnsOf(g) = TurnsOf(h) \union {Len(h) + 1} /\ TurnsOf(h) \subseteq 1..Len(h)
  BY <1>1, TurnsAre
<1> HIDE DEF g
<1>5. Listed(turn) /\ Len(turn) \in Nat /\ Len(<<>>) = 0
  BY ChatAssumption, ListedIf, ListedIs
<1>6. g[1].role = "model"
  <2>1. CASE h = <<>>
    BY <1>2, <1>3, <2>1
  <2>2. CASE h # <<>>
    <3>1. 1 \in 1..Len(h)
      BY <1>2, <2>2
    <3> QED BY <1>1, <1>3, <2>2, <3>1
  <2> QED BY <2>1, <2>2
<1>7. ASSUME NEW i \in TurnsOf(g)
      PROVE  LET n == Len(g[i].calls) IN
             /\ g[i].calls \in Turns
             /\ \A k \in 1..n : i + k \in DOMAIN g => g[i + k].role = "tool" /\ g[i + k].id = g[i].calls[k].id
             /\ \/ i + n + 1 \in DOMAIN g /\ g[i + n + 1].role = "model"
                \/ /\ i + n = Len(g) + Len(turn) /\ Len(turn) <= n
                   /\ \A k \in 1..Len(turn) : turn[k] = g[i].calls[n - Len(turn) + k]
  <2> DEFINE n == Len(g[i].calls)
  <2>1. CASE i = Len(h) + 1
    <3>1. g[i].calls = turn /\ n = Len(turn) /\ n \in Nat
      BY <1>3, <1>5, <2>1
    <3> HIDE DEF n
    <3>2. \A k \in 1..n : i + k \notin DOMAIN g
      BY <1>2, <1>3, <2>1, <3>1
    <3>3. i + n = Len(g) + Len(turn) /\ Len(turn) <= n /\ \A k \in 1..Len(turn) : n - Len(turn) + k = k
      <4>1. \A a, b \in Nat : b <= b /\ \A k \in 1..b : b - b + k = k
        OBVIOUS
      <4>2. i + n = Len(g) + Len(turn)
        BY <1>3, <2>1, <3>1
      <4> QED BY <1>5, <3>1, <4>1, <4>2
    <3> QED BY <3>1, <3>2, <3>3 DEF n
  <2>2. CASE i \in TurnsOf(h)
    <3>1. i \in 1..Len(h) /\ g[i] = h[i]
      BY <1>3, <1>4, <2>2
    <3>2. /\ h[i].calls \in Turns /\ n = Len(h[i].calls)
          /\ \A k \in 1..n : i + k \in DOMAIN h => h[i + k].role = "tool" /\ h[i + k].id = h[i].calls[k].id
          /\ (i + n + 1 \in DOMAIN h /\ h[i + n + 1].role = "model") \/ i + n = Len(h)
      <4>1. Len(h) + Len(<<>>) = Len(h)
        BY <1>2, <1>5
      <4> QED BY ONLY <1>1, <2>2, <3>1, <4>1
    <3>3. n \in Nat
      BY <3>2, ChatAssumption, ListedIf, ListedIs
    <3> HIDE DEF n
    <3>4. \A k \in 1..n : i + k \in DOMAIN h
      <4>1. i + n <= Len(h)
        <5>1. (i + n + 1 \in 1..Len(h)) \/ i + n = Len(h)
          BY <1>2, <3>2
        <5>2. i \in Nat
          BY <3>1
        <5>3. \A a, b, c \in Nat : (a + b + 1 \in 1..c) \/ a + b = c => a + b <= c
          OBVIOUS
        <5> QED BY <1>2, <3>3, <5>1, <5>2, <5>3
      <4> QED BY <1>2, <3>1, <3>3, <4>1
    <3>5. \A k \in 1..n : g[i + k] = h[i + k]
      BY <1>2, <1>3, <3>4
    <3>6. i + n + 1 \in DOMAIN g /\ g[i + n + 1].role = "model"
      <4>1. CASE i + n + 1 \in DOMAIN h /\ h[i + n + 1].role = "model"
        BY <1>2, <1>3, <4>1
      <4>2. CASE i + n = Len(h)
        BY <1>2, <1>3, <4>2
      <4> QED BY <3>2, <4>1, <4>2
    <3> QED BY <3>1, <3>2, <3>4, <3>5, <3>6 DEF n
  <2> QED BY <1>4, <2>1, <2>2
<1> QED BY <1>3, <1>5, <1>6, <1>7 DEF Heard, g

LEMMA HeardResult ==
  ASSUME NEW h, NEW left, NEW e, e.role = "tool", left # <<>>, e.id = Head(left).id, Heard(h, left)
  PROVE  Heard(Append(h, e), Tail(left))
<1> DEFINE g == Append(h, e)
           rest == Tail(left)
<1>1. /\ Listed(h) /\ Listed(left) /\ (h # <<>> => h[1].role = "model") /\ h # <<>>
      /\ \A i \in TurnsOf(h) : LET n == Len(h[i].calls) IN
           /\ h[i].calls \in Turns
           /\ \A k \in 1..n : i + k \in DOMAIN h => h[i + k].role = "tool" /\ h[i + k].id = h[i].calls[k].id
           /\ \/ i + n + 1 \in DOMAIN h /\ h[i + n + 1].role = "model"
              \/ /\ i + n = Len(h) + Len(left) /\ Len(left) <= n
                 /\ \A k \in 1..Len(left) : left[k] = h[i].calls[n - Len(left) + k]
  BY DEF Heard
<1>2. Len(h) \in Nat /\ DOMAIN h = 1..Len(h) /\ Len(h) # 0
  BY <1>1, ListedIs
<1>3. /\ Listed(g) /\ g # <<>> /\ Len(g) = Len(h) + 1 /\ DOMAIN g = 1..(Len(h) + 1)
      /\ (\A i \in 1..Len(h) : g[i] = h[i]) /\ g[Len(h) + 1] = e
  BY <1>1, AppendIs
<1>4. TurnsOf(g) = TurnsOf(h) /\ TurnsOf(h) \subseteq 1..Len(h)
  BY <1>1, TurnsAre
<1>5. /\ Listed(rest) /\ Len(rest) = Len(left) - 1 /\ Head(left) = left[1] /\ Len(left) \in Nat /\ Len(left) # 0
      /\ \A k \in 1..Len(left) - 1 : rest[k] = left[k + 1]
  BY <1>1, TailIs, ListedIs
<1> HIDE DEF g, rest
<1>6. g[1].role = "model"
  <2>1. 1 \in 1..Len(h)
    BY <1>2
  <2> QED BY <1>1, <1>3, <2>1
<1>7. ASSUME NEW i \in TurnsOf(g)
      PROVE  LET n == Len(g[i].calls) IN
             /\ g[i].calls \in Turns
             /\ \A k \in 1..n : i + k \in DOMAIN g => g[i + k].role = "tool" /\ g[i + k].id = g[i].calls[k].id
             /\ \/ i + n + 1 \in DOMAIN g /\ g[i + n + 1].role = "model"
                \/ /\ i + n = Len(g) + Len(rest) /\ Len(rest) <= n
                   /\ \A k \in 1..Len(rest) : rest[k] = g[i].calls[n - Len(rest) + k]
  <2> DEFINE n == Len(g[i].calls)
             calls == g[i].calls
  <2>1. i \in 1..Len(h) /\ g[i] = h[i]
    BY <1>3, <1>4
  <2>2. /\ calls \in Turns
        /\ \A k \in 1..n : i + k \in DOMAIN h => h[i + k].role = "tool" /\ h[i + k].id = calls[k].id
        /\ \/ i + n + 1 \in DOMAIN h /\ h[i + n + 1].role = "model"
           \/ /\ i + n = Len(h) + Len(left) /\ Len(left) <= n
              /\ \A k \in 1..Len(left) : left[k] = calls[n - Len(left) + k]
    BY <1>1, <1>4, <2>1
  <2>3. n \in Nat
    BY <2>2, ChatAssumption, ListedIf, ListedIs
  <2> HIDE DEF n, calls
  <2>4. CASE i + n + 1 \in DOMAIN h /\ h[i + n + 1].role = "model"
    <3>1. \A k \in 1..n : i + k \in DOMAIN h /\ g[i + k] = h[i + k]
      BY <1>2, <1>3, <2>1, <2>3, <2>4
    <3>2. i + n + 1 \in DOMAIN g /\ g[i + n + 1].role = "model"
      BY <1>2, <1>3, <2>4
    <3> QED BY <2>2, <3>1, <3>2 DEF n, calls
  <2>5. CASE /\ i + n = Len(h) + Len(left) /\ Len(left) <= n
             /\ \A k \in 1..Len(left) : left[k] = calls[n - Len(left) + k]
    <3>1. i + n = Len(g) + Len(rest) /\ Len(rest) <= n
      <4>1. Len(g) + Len(rest) = Len(h) + Len(left)
        BY <1>2, <1>3, <1>5
      <4>2. Len(rest) <= Len(left) /\ Len(rest) \in Int
        BY <1>5
      <4>3. \A x, y, z \in Int : x <= y /\ y <= z => x <= z
        OBVIOUS
      <4>4. Len(rest) <= n
        BY <1>5, <2>3, <2>5, <4>2, <4>3
      <4> QED BY ONLY <2>5, <4>1, <4>4
    <3>2. ASSUME NEW k \in 1..Len(rest) PROVE rest[k] = calls[n - Len(rest) + k]
      <4>1. k \in 1..Len(left) - 1 /\ k + 1 \in 1..Len(left)
        BY <1>5
      <4>2. rest[k] = calls[n - Len(left) + (k + 1)]
        BY <1>5, <2>5, <4>1
      <4>3. n - Len(left) + (k + 1) = n - Len(rest) + k
        BY <1>5, <2>3, <4>1
      <4> QED BY <4>2, <4>3
    <3>3. ASSUME NEW k \in 1..n, i + k \in DOMAIN g PROVE g[i + k].role = "tool" /\ g[i + k].id = calls[k].id
      <4>1. CASE i + k \in DOMAIN h
        BY <1>2, <1>3, <2>2, <4>1
      <4>2. CASE i + k \notin DOMAIN h
        <5>1. i + k = Len(h) + 1
          BY <1>2, <1>3, <2>1, <3>3, <4>2
        <5>2. k = n - Len(left) + 1 /\ 1 \in 1..Len(left)
          <6>1. \A a, b, x, y, z \in Int : a + b = x + y /\ a + z = x + 1 => z = b - y + 1
            OBVIOUS
          <6>2. i \in Int /\ n \in Int /\ Len(h) \in Int /\ Len(left) \in Int /\ k \in Int /\ i + n = Len(h) + Len(left)
            BY <1>2, <1>5, <2>1, <2>3, <2>5
          <6>3. 1 \in 1..Len(left)
            BY <1>5
          <6> QED BY <5>1, <6>1, <6>2, <6>3
        <5>3. left[1] = calls[k]
          BY <2>5, <5>2
        <5> QED BY <1>3, <1>5, <5>1, <5>3
      <4> QED BY <4>1, <4>2
    <3> QED BY <2>2, <3>1, <3>2, <3>3 DEF n, calls
  <2> QED BY <2>2, <2>4, <2>5
<1> QED BY <1>3, <1>5, <1>6, <1>7 DEF Heard, g, rest

(* Asked ids of a longer history *)
LEMMA AskedMore ==
  ASSUME NEW h, NEW e, Listed(h)
  PROVE  AskedOf(h) \subseteq AskedOf(Append(h, e))
<1>1. Len(h) \in Nat /\ DOMAIN h = 1..Len(h) /\ TurnsOf(h) \subseteq 1..Len(h)
  BY ListedIs, TurnsAre
<1>2. /\ DOMAIN Append(h, e) = 1..(Len(h) + 1) /\ \A i \in 1..Len(h) : Append(h, e)[i] = h[i]
  BY AppendIs
<1>3. \A i \in TurnsOf(h) : i \in TurnsOf(Append(h, e)) /\ Append(h, e)[i] = h[i]
  BY <1>1, <1>2 DEF TurnsOf, Chat!ModelTurns
<1> QED BY <1>3 DEF AskedOf

LEMMA AskedOnes ==
  ASSUME NEW h, NEW i \in TurnsOf(h), NEW k \in DOMAIN h[i].calls
  PROVE  ToSet(h[i].calls[k].ids) \subseteq AskedOf(h)
<1>1. h[i].calls[k] \in Chat!ToSet(h[i].calls)
  BY DEF Chat!ToSet
<1> QED BY <1>1, ChatToSet DEF AskedOf

(* A call that is left is of the last turn. *)
LEMMA LeftFromTurn ==
  ASSUME NEW h, NEW left, Heard(h, left), left # <<>>, h # <<>>
  PROVE  \E i \in TurnsOf(h) : \E k \in DOMAIN h[i].calls : h[i].calls \in Turns /\ Head(left) = h[i].calls[k]
<1>1. Listed(h) /\ Listed(left) /\ h[1].role = "model"
  BY DEF Heard
<1>2. Len(h) \in Nat /\ DOMAIN h = 1..Len(h) /\ Len(h) # 0 /\ 1 \in 1..Len(h)
  BY <1>1, ListedIs
<1>3. TurnsOf(h) \subseteq 1..Len(h) /\ 1 \in TurnsOf(h)
  BY <1>1, <1>2, TurnsAre
<1>4. PICK i \in TurnsOf(h) : \A j \in TurnsOf(h) : j <= i
  <2>1. TurnsOf(h) \subseteq 0..Len(h)
    BY <1>2, <1>3
  <2> QED BY <1>2, <1>3, <2>1, GreatestNat
<1> DEFINE calls == h[i].calls
           n == Len(calls)
<1>5. /\ calls \in Turns
      /\ \/ i + n + 1 \in DOMAIN h /\ h[i + n + 1].role = "model"
         \/ /\ i + n = Len(h) + Len(left) /\ Len(left) <= n
            /\ \A k \in 1..Len(left) : left[k] = calls[n - Len(left) + k]
  BY DEF Heard
<1>6. n \in Nat /\ DOMAIN calls = 1..n
  BY <1>5, ChatAssumption, ListedIf, ListedIs
<1> HIDE DEF n, calls
<1>7. ~(i + n + 1 \in DOMAIN h /\ h[i + n + 1].role = "model")
  <2> SUFFICES ASSUME i + n + 1 \in DOMAIN h, h[i + n + 1].role = "model" PROVE FALSE
    OBVIOUS
  <2>1. i + n + 1 <= i
    BY <1>1, <1>2, <1>4, TurnsAre
  <2>2. \A x, y \in Nat : ~(x + y + 1 <= x)
    OBVIOUS
  <2> QED BY <1>2, <1>3, <1>6, <2>1, <2>2
<1>8. Len(left) \in Nat /\ Len(left) # 0 /\ Head(left) = left[1]
  BY <1>1, ListedIs, TailIs
<1>9. 1 \in 1..Len(left) /\ n - Len(left) + 1 \in 1..n
  <2>1. \A x, y \in Nat : y # 0 /\ y <= x => 1 \in 1..y /\ x - y + 1 \in 1..x
    OBVIOUS
  <2> QED BY <1>5, <1>6, <1>7, <1>8, <2>1
<1>10. Head(left) = calls[n - Len(left) + 1]
  BY <1>5, <1>7, <1>8, <1>9
<1> QED BY <1>5, <1>6, <1>9, <1>10 DEF calls

(* A step begins with all models; the provider may change before it. *)
LEMMA ChatBegins ==
  ASSUME NEW c, Chat!Begin(config', c), UNCHANGED out, out.error # "none",
         c = [provider |-> c.provider, history |-> c.history, calls |-> c.calls,
              steps |-> c.steps, lit |-> c.lit, current |-> c.current],
         Heard(c.history, <<>>), c.calls = <<>>, c.steps \in Nat, c.steps < MaxSteps,
         c.provider # config'.provider => config'.fallback,
         \A i \in TurnsOf(c.history) : c.history[i].by \in ToSet(Chat!Models(config', c.provider)),
         Listed(c.lit), IsInjective(c.lit), ToSet(c.lit) \subseteq AskedOf(c.history) \intersect Known,
         Cardinality(TurnsOf(c.history)) = c.steps,
         c.history # <<>> => c.current \in ToSet(Chat!Models(config', c.provider)),
         LastBy(c.history, c.current)
  PROVE  ChatInv'
<1> DEFINE models == Chat!Models(config', c.provider)
           q == Chat!InOrder(config', c)
<1>1. chatPc' = "ask" /\ conv' = c /\ queue' = q /\ UNCHANGED out
  BY DEF Chat!Begin
<1>2. /\ Listed(q) /\ q # <<>> /\ ToSet(q) \subseteq ToSet(models) /\ Len(q) <= Len(models)
      /\ c.current \in ToSet(models) => Head(q) = c.current
  BY OrderIs
<1>3. ModelsOf' = models
  BY <1>1 DEF ModelsOf
<1>4. LastBy(c.history, Head(q))
  <2>1. CASE c.history = <<>>
    <3>1. TurnsOf(c.history) = {}
      <4>1. Listed(c.history)
        BY DEF Heard
      <4>2. TurnsOf(c.history) \subseteq 1..Len(c.history) /\ Len(c.history) = 0
        BY <2>1, <4>1, TurnsAre, ListedIs
      <4> QED BY <4>2
    <3> QED BY <3>1 DEF LastBy
  <2>2. CASE c.history # <<>>
    BY <1>2, <2>2
  <2> QED BY <2>1, <2>2
<1> HIDE DEF models, q
<1>5. Talking'
  BY <1>1, <1>2, <1>3, ChatToSet DEF Talking, models
<1>6. AtStep'
  BY <1>1, <1>4 DEF AtStep
<1> QED BY <1>1, <1>5, <1>6 DEF ChatInv

(* A provider begins with nothing of another one. *)
LEMMA ChatRestarts ==
  ASSUME NEW p, Chat!Begin(config', Chat!Chat(p)), UNCHANGED out, out.error # "none",
         p # config'.provider => config'.fallback
  PROVE  ChatInv'
<1> DEFINE c == Chat!Chat(p)
<1>1. c = [provider |-> p, history |-> <<>>, calls |-> <<>>, steps |-> 0, lit |-> <<>>, current |-> "none"]
  BY DEF Chat!Chat, Chat!None
<1>2. /\ c.provider = p /\ c.history = <<>> /\ c.calls = <<>> /\ c.steps = 0 /\ c.lit = <<>>
      /\ c = [provider |-> c.provider, history |-> c.history, calls |-> c.calls,
              steps |-> c.steps, lit |-> c.lit, current |-> c.current]
  BY <1>1
<1>3. Listed(<<>>) /\ Len(<<>>) = 0
  <2>1. <<>> \in Seq({})
    BY EmptySeq
  <2> QED BY <2>1, ListedIf, EmptySeq
<1>4. DOMAIN <<>> = {} /\ TurnsOf(<<>>) = {}
  <2>1. DOMAIN <<>> = 1..0
    BY <1>3, ListedIs
  <2>2. DOMAIN <<>> = {}
    BY <2>1
  <2> QED BY <2>2 DEF TurnsOf, Chat!ModelTurns
<1>5. Heard(<<>>, <<>>) /\ IsInjective(<<>>) /\ ToSet(<<>>) = {} /\ LastBy(<<>>, c.current)
  BY <1>3, <1>4, ChatToSet DEF Heard, IsInjective, LastBy
<1>6. Cardinality(TurnsOf(<<>>)) = 0 /\ MaxSteps \in Nat /\ 0 < MaxSteps
  <2>1. MaxSteps \in Nat \ {0}
    BY ChatAssumption
  <2>2. \A n \in Nat \ {0} : n \in Nat /\ 0 < n
    OBVIOUS
  <2>3. Cardinality({}) = 0
    BY FS_EmptySet
  <2> QED BY ONLY <1>4, <2>1, <2>2, <2>3
<1> HIDE DEF c
<1>7. /\ Heard(c.history, <<>>) /\ c.steps \in Nat /\ c.steps < MaxSteps /\ (c.provider # config'.provider => config'.fallback)
      /\ (\A i \in TurnsOf(c.history) : c.history[i].by \in ToSet(Chat!Models(config', c.provider)))
      /\ Listed(c.lit) /\ IsInjective(c.lit) /\ ToSet(c.lit) \subseteq AskedOf(c.history) \intersect Known
      /\ Cardinality(TurnsOf(c.history)) = c.steps
      /\ LastBy(c.history, c.current)
  BY <1>2, <1>3, <1>4, <1>5, <1>6
<1>8. Chat!Begin(config', c)
  BY DEF c
<1> QED BY <1>2, <1>7, <1>8, ChatBegins

LEMMA ChatStart == Chat!Init => ChatInv
  BY DEF Chat!Init, ChatInv, Chat!NoAnswer

(* The end of a question, with an error *)
LEMMA ChatFails ==
  ASSUME NEW status, status # "none", Chat!Fail(status)
  PROVE  ChatInv'
<1>1. chatPc' = "done" /\ out' = [error |-> status]
  BY DEF Chat!Fail
<1> QED BY <1>1 DEF ChatInv

LEMMA ChatAsk == ASSUME ChatInv, Chat!Ask PROVE ChatInv'
<1>1. chatPc = "idle" /\ config' = row /\ out.error # "none"
  BY DEF ChatInv, Chat!Ask
<1>2. CASE row.provider \notin Keys
  <2>1. Chat!Fail("not configured")
    BY <1>2 DEF Chat!Ask
  <2> QED BY <2>1, ChatFails
<1>3. CASE row.provider \in Keys
  <2>1. Chat!Begin(row, Chat!Chat(row.provider))
    BY <1>3 DEF Chat!Ask
  <2>2. UNCHANGED out
    BY <2>1 DEF Chat!Begin
  <2> QED BY <1>1, <2>1, <2>2, ChatRestarts
<1> QED BY <1>2, <1>3

LEMMA ChatUnavailable ==
  ASSUME ChatInv, chatPc = "ask", UNCHANGED config, NEW retryable \in BOOLEAN, Chat!Unavailable(retryable)
  PROVE  ChatInv'
<1> DEFINE other == Chat!Other(config.provider)
<1>1. \/ config.fallback /\ Chat!Begin(config, Chat!Chat(other))
      \/ Chat!Fail("unavailable")
  BY DEF Chat!Unavailable, Chat!Restart
<1>2. CASE config.fallback /\ Chat!Begin(config, Chat!Chat(other))
  <2>1. UNCHANGED out /\ out.error # "none"
    BY <1>2 DEF Chat!Begin, ChatInv
  <2> HIDE DEF other
  <2> QED BY <1>2, <2>1, ChatRestarts
<1>3. CASE Chat!Fail("unavailable")
  BY <1>3, ChatFails
<1> QED BY <1>1, <1>2, <1>3

LEMMA ChatNextModel ==
  ASSUME ChatInv, chatPc = "ask", UNCHANGED config, Chat!NextModel
  PROVE  ChatInv'
<1>1. CASE Len(queue) > 1
  <2>1. queue' = Tail(queue) /\ UNCHANGED <<chatPc, conv, out>>
    BY <1>1 DEF Chat!NextModel
  <2>2. Talking /\ AtStep
    BY DEF ChatInv
  <2>3. /\ Listed(queue) /\ queue # <<>> /\ ToSet(queue) \subseteq ToSet(ModelsOf) /\ Len(queue) <= Len(ModelsOf)
        /\ Listed(ModelsOf)
    BY <2>2, ChatToSet, ModelsAre DEF Talking, ModelsOf
  <2>4. /\ Listed(Tail(queue)) /\ Len(Tail(queue)) = Len(queue) - 1 /\ ToSet(Tail(queue)) \subseteq ToSet(queue)
        /\ Len(queue) \in Nat /\ Len(ModelsOf) \in Nat
    BY <2>3, TailIs, ListedIs
  <2>5. Tail(queue) # <<>> /\ Len(Tail(queue)) <= Len(ModelsOf) /\ Len(Tail(queue)) # Len(ModelsOf)
    <3>1. \A n, m, t \in Nat : n > 1 /\ n <= m /\ t = n - 1 => t # 0 /\ t <= m /\ t # m
      OBVIOUS
    <3>4. Len(Tail(queue)) \in Nat
      BY <2>4, ListedIs
    <3>2. Len(Tail(queue)) # 0 /\ Len(Tail(queue)) <= Len(ModelsOf) /\ Len(Tail(queue)) # Len(ModelsOf)
      BY ONLY <1>1, <2>3, <2>4, <3>1, <3>4, Zenon
    <3>3. Len(<<>>) = 0
      BY EmptySeq
    <3> QED BY ONLY <3>2, <3>3
  <2>6. ModelsOf' = ModelsOf
    BY <2>1 DEF ModelsOf
  <2>7. Talking'
    BY <2>1, <2>2, <2>3, <2>4, <2>5, <2>6, ChatToSet DEF Talking
  <2>8. AtStep'
    BY <2>1, <2>2, <2>5, <2>6 DEF AtStep
  <2> QED BY <2>1, <2>7, <2>8 DEF ChatInv
<1>2. CASE ~(Len(queue) > 1)
  <2>1. Chat!Unavailable(TRUE)
    BY <1>2 DEF Chat!NextModel
  <2> QED BY <2>1, ChatUnavailable
<1> QED BY <1>1, <1>2

LEMMA ChatSays == ASSUME ChatInv, Chat!Says PROVE ChatInv'
<1>1. /\ chatPc = "ask" /\ UNCHANGED config
      /\ \E cited \in Cited : Chat!Answer([conv EXCEPT !.current = Head(queue)], cited)
  BY DEF Chat!Says
<1>2. Talking
  BY <1>1 DEF ChatInv
<1>3. PICK pr, hs, cl, st, lt, cu :
        conv = [provider |-> pr, history |-> hs, calls |-> cl, steps |-> st, lit |-> lt, current |-> cu]
  BY <1>2 DEF Talking
<1> DEFINE c == [conv EXCEPT !.current = Head(queue)]
<1>4. /\ c.provider = conv.provider /\ c.history = conv.history /\ c.lit = conv.lit /\ c.current = Head(queue)
      /\ c.steps = conv.steps
  BY <1>3
<1> HIDE DEF c
<1>5. /\ Listed(conv.lit) /\ IsInjective(conv.lit) /\ ToSet(conv.lit) \subseteq AskedOf(conv.history) \intersect Known
      /\ Listed(queue) /\ queue # <<>> /\ ToSet(queue) \subseteq ToSet(ModelsOf)
      /\ conv.provider # config.provider => config.fallback
  BY <1>2, ChatToSet DEF Talking
<1>6. PICK cited \in Cited : Chat!Answer(c, cited)
  BY <1>1 DEF c
<1>7. /\ chatPc' = "done" /\ conv' = c /\ UNCHANGED <<queue, tries>>
      /\ out'.error = "none" /\ out'.refs \subseteq Known
      /\ ToSet(out'.highlight) \subseteq ToSet(c.lit) \union out'.refs
      /\ out'.refs \union ToSet(out'.highlight) \subseteq out'.labels
      /\ IsInjective(out'.highlight) /\ Len(out'.highlight) <= MaxLit
      /\ out'.provider = c.provider /\ out'.model = c.current /\ (out'.fallback <=> c.provider # config.provider)
  <2>1. Listed(c.lit) /\ IsInjective(c.lit) /\ ToSet(c.lit) \subseteq Known
    BY <1>4, <1>5
  <2> QED BY <1>6, <2>1, AnswerIs
<1>8. out'.model \in ToSet(Chat!Models(config', out'.provider))
  <2>1. Head(queue) \in ToSet(queue)
    <3>1. Head(queue) = queue[1] /\ 1 \in DOMAIN queue
      BY <1>5, TailIs, ListedIs
    <3> QED BY <3>1, ChatToSet
  <2> QED BY <1>1, <1>4, <1>5, <1>7, <2>1 DEF ModelsOf
<1>9. Honest'
  BY <1>1, <1>4, <1>5, <1>7, <1>8 DEF Honest
<1> QED BY <1>7, <1>9 DEF ChatInv

LEMMA ChatCalls == ASSUME ChatInv, Chat!Calls PROVE ChatInv'
<1>1. PICK turn \in Turns :
        conv' = [conv EXCEPT !.current = Head(queue), !.calls = turn,
                             !.history = Append(@, [role |-> "model", by |-> Head(queue), calls |-> turn])]
  BY DEF Chat!Calls
<1>2. chatPc = "ask" /\ chatPc' = "tools" /\ UNCHANGED <<config, queue, out>>
  BY DEF Chat!Calls
<1>3. Talking /\ AtStep
  BY <1>2 DEF ChatInv
<1>4. PICK pr, hs, cl, st, lt, cu :
        conv = [provider |-> pr, history |-> hs, calls |-> cl, steps |-> st, lit |-> lt, current |-> cu]
  BY <1>3 DEF Talking
<1> DEFINE e == [role |-> "model", by |-> Head(queue), calls |-> turn]
           h == conv.history
           g == Append(h, e)
<1>5. conv' = [provider |-> conv.provider, history |-> g, calls |-> turn, steps |-> conv.steps, lit |-> conv.lit,
               current |-> Head(queue)]
  BY <1>1, <1>4
<1>6. e.role = "model" /\ e.calls = turn /\ e.by = Head(queue)
  OBVIOUS
<1> HIDE DEF e
<1>7. /\ conv'.provider = conv.provider /\ conv'.history = g /\ conv'.calls = turn /\ conv'.steps = conv.steps
      /\ conv'.lit = conv.lit /\ conv'.current = Head(queue)
  BY <1>5
<1>8. /\ Heard(h, <<>>) /\ Listed(h) /\ Cardinality(TurnsOf(h)) = conv.steps
      /\ Listed(queue) /\ queue # <<>> /\ ToSet(queue) \subseteq ToSet(ModelsOf)
      /\ \A i \in TurnsOf(h) : h[i].by \in ToSet(ModelsOf)
  BY <1>3, ChatToSet DEF Talking, AtStep, Heard
<1> HIDE DEF h
<1>9. Heard(g, turn)
  BY <1>6, <1>8, HeardTurn
<1>10. /\ TurnsOf(g) = TurnsOf(h) \union {Len(h) + 1} /\ Cardinality(TurnsOf(g)) = conv.steps + 1
       /\ TurnsOf(h) \subseteq 1..Len(h)
  BY <1>6, <1>8, TurnsAre
<1>11. /\ g # <<>> /\ (\A i \in 1..Len(h) : g[i] = h[i]) /\ g[Len(h) + 1] = e /\ Len(h) \in Nat
  BY <1>8, AppendIs, ListedIs
<1>12. ModelsOf' = ModelsOf
  BY <1>2, <1>7 DEF ModelsOf
<1>13. Head(queue) \in ToSet(ModelsOf)
  <2>1. Head(queue) = queue[1] /\ 1 \in DOMAIN queue
    BY <1>8, TailIs, ListedIs
  <2> QED BY <1>8, <2>1, ChatToSet
<1>14. \A i \in TurnsOf(g) : g[i].by \in ToSet(ModelsOf)
  BY <1>6, <1>8, <1>10, <1>11, <1>13
<1>15. LastBy(g, Head(queue))
  <2> SUFFICES ASSUME NEW i \in TurnsOf(g), \A j \in TurnsOf(g) : j <= i PROVE g[i].by = Head(queue)
    BY DEF LastBy
  <2>1. Len(h) + 1 <= i /\ (i \in 1..Len(h) \/ i = Len(h) + 1)
    BY <1>10
  <2>2. \A n \in Nat : \A j \in 1..n : ~(n + 1 <= j)
    OBVIOUS
  <2>3. i = Len(h) + 1
    BY <1>11, <2>1, <2>2
  <2> QED BY <1>6, <1>11, <2>3
<1>16. AskedOf(h) \subseteq AskedOf(g)
  BY <1>8, AskedMore
<1> HIDE DEF g
<1>17. conv' = [provider |-> conv'.provider, history |-> conv'.history, calls |-> conv'.calls,
                steps |-> conv'.steps, lit |-> conv'.lit, current |-> conv'.current]
  BY <1>5, <1>7
<1>18. Talking'
  <2>1. /\ conv.steps \in Nat /\ conv.steps < MaxSteps /\ (conv.provider # config.provider => config.fallback)
        /\ Len(queue) <= Len(ModelsOf)
        /\ Listed(conv.lit) /\ IsInjective(conv.lit) /\ ToSet(conv.lit) \subseteq AskedOf(h) \intersect Known
    BY <1>3, ChatToSet DEF Talking, h
  <2>2. ToSet(conv.lit) \subseteq AskedOf(g) \intersect Known
    BY <1>16, <2>1
  <2> QED BY <1>2, <1>7, <1>8, <1>9, <1>12, <1>14, <1>17, <2>1, <2>2, ChatToSet DEF Talking
<1>19. AtTools'
  BY <1>2, <1>7, <1>10, <1>11, <1>15 DEF AtTools, g
<1> QED BY <1>2, <1>18, <1>19 DEF ChatInv

LEMMA ChatRunTool == ASSUME ChatInv, Chat!RunTool PROVE ChatInv'
<1> DEFINE call == Head(conv.calls)
<1>1. /\ chatPc = "tools" /\ conv.calls # <<>> /\ UNCHANGED config
      /\ IF call.tool = "NaN" THEN Chat!Fail("internal")
         ELSE /\ conv' = [conv EXCEPT !.calls = Tail(@), !.lit = Chat!Lit(@, call),
                                      !.history = Append(@, [role |-> "tool", id |-> call.id])]
              /\ UNCHANGED <<chatPc, queue, tries, out>>
  BY DEF Chat!RunTool
<1>2. CASE call.tool = "NaN"
  <2>1. Chat!Fail("internal")
    BY <1>1, <1>2
  <2> QED BY <2>1, ChatFails
<1>3. CASE call.tool # "NaN"
  <2>1. Talking /\ AtTools
    BY <1>1 DEF ChatInv
  <2>2. PICK pr, hs, cl, st, lt, cu :
          conv = [provider |-> pr, history |-> hs, calls |-> cl, steps |-> st, lit |-> lt, current |-> cu]
    BY <2>1 DEF Talking
  <2> DEFINE e == [role |-> "tool", id |-> call.id]
             h == conv.history
             g == Append(h, e)
             l == Chat!Lit(conv.lit, call)
  <2>3. conv' = [provider |-> conv.provider, history |-> g, calls |-> Tail(conv.calls), steps |-> conv.steps,
                 lit |-> l, current |-> conv.current]
    BY <1>1, <1>3, <2>2
  <2>4. e.role = "tool" /\ e.id = call.id
    OBVIOUS
  <2> HIDE DEF e, l
  <2>5. /\ conv'.provider = conv.provider /\ conv'.history = g /\ conv'.calls = Tail(conv.calls)
        /\ conv'.steps = conv.steps /\ conv'.lit = l /\ conv'.current = conv.current
    BY <2>3
  <2>6. /\ Heard(h, conv.calls) /\ Listed(h) /\ Listed(conv.calls) /\ h # <<>>
        /\ \A i \in TurnsOf(h) : h[i].by \in ToSet(ModelsOf)
        /\ Listed(conv.lit) /\ IsInjective(conv.lit) /\ ToSet(conv.lit) \subseteq AskedOf(h) \intersect Known
        /\ Cardinality(TurnsOf(h)) = conv.steps + 1 /\ conv.current = Head(queue) /\ LastBy(h, conv.current)
    BY <2>1, ChatToSet DEF Talking, AtTools, Heard
  <2> HIDE DEF h
  <2>7. Heard(g, Tail(conv.calls))
    BY <1>1, <2>4, <2>6, HeardResult
  <2>8. TurnsOf(g) = TurnsOf(h) /\ TurnsOf(h) \subseteq 1..Len(h)
    BY <2>4, <2>6, TurnsAre
  <2>9. g # <<>> /\ (\A i \in 1..Len(h) : g[i] = h[i])
    BY <2>6, AppendIs
  <2>10. /\ Listed(call.ids) /\ ToSet(call.ids) \subseteq AskedOf(h)
    <3>1. \E i \in TurnsOf(h) : \E k \in DOMAIN h[i].calls : h[i].calls \in Turns /\ call = h[i].calls[k]
      BY <1>1, <2>6, LeftFromTurn
    <3>2. PICK i \in TurnsOf(h) : \E k \in DOMAIN h[i].calls : h[i].calls \in Turns /\ call = h[i].calls[k]
      BY <3>1
    <3>4. PICK k \in DOMAIN h[i].calls : h[i].calls \in Turns /\ call = h[i].calls[k]
      BY <3>2
    <3> HIDE DEF call
    <3>3. call.ids \in Seq(ToSet(call.ids))
      BY <3>4, ChatAssumption
    <3> QED BY <3>4, <3>3, ListedIf, AskedOnes
  <2>11. Listed(l) /\ IsInjective(l) /\ ToSet(l) \subseteq ToSet(conv.lit) \union (ToSet(call.ids) \intersect Known)
    <3> HIDE DEF call
    <3> QED BY <2>6, <2>10, LitIs DEF l
  <2>12. AskedOf(h) \subseteq AskedOf(g)
    BY <2>6, AskedMore
  <2>13. ModelsOf' = ModelsOf
    BY <1>1, <2>5 DEF ModelsOf
  <2>14. UNCHANGED <<chatPc, queue, out, config>>
    BY <1>1, <1>3
  <2> HIDE DEF g, call
  <2>15. conv' = [provider |-> conv'.provider, history |-> conv'.history, calls |-> conv'.calls,
                  steps |-> conv'.steps, lit |-> conv'.lit, current |-> conv'.current]
    BY <2>3, <2>5
  <2>16. Talking'
    <3>1. /\ conv.steps \in Nat /\ conv.steps < MaxSteps /\ (conv.provider # config.provider => config.fallback)
          /\ Listed(queue) /\ queue # <<>> /\ ToSet(queue) \subseteq ToSet(ModelsOf) /\ Len(queue) <= Len(ModelsOf)
      BY <2>1, ChatToSet DEF Talking
    <3>2. ToSet(l) \subseteq AskedOf(g) \intersect Known
      BY <2>6, <2>10, <2>11, <2>12
    <3>3. \A i \in TurnsOf(g) : g[i].by \in ToSet(ModelsOf)
      BY <2>6, <2>8, <2>9
    <3> QED BY <2>5, <2>7, <2>11, <2>13, <2>14, <2>15, <3>1, <3>2, <3>3, ChatToSet DEF Talking
  <2>17. AtTools'
    <3>1. LastBy(g, conv.current)
      BY <2>6, <2>8, <2>9 DEF LastBy
    <3> QED BY <2>5, <2>6, <2>8, <2>9, <2>14, <3>1 DEF AtTools
  <2> QED BY <1>1, <2>14, <2>16, <2>17 DEF ChatInv
<1> QED BY <1>2, <1>3

LEMMA ChatNextStep == ASSUME ChatInv, Chat!NextStep PROVE ChatInv'
<1> DEFINE c == [conv EXCEPT !.steps = @ + 1]
<1>1. /\ chatPc = "tools" /\ conv.calls = <<>> /\ UNCHANGED config
      /\ IF c.steps = MaxSteps THEN Chat!Answer(c, {}) ELSE Chat!Begin(config, c)
  BY DEF Chat!NextStep
<1>2. Talking /\ AtTools /\ out.error # "none"
  BY <1>1 DEF ChatInv
<1>3. PICK pr, hs, cl, st, lt, cu :
        conv = [provider |-> pr, history |-> hs, calls |-> cl, steps |-> st, lit |-> lt, current |-> cu]
  BY <1>2 DEF Talking
<1>4. /\ c = [provider |-> conv.provider, history |-> conv.history, calls |-> conv.calls, steps |-> conv.steps + 1,
              lit |-> conv.lit, current |-> conv.current]
  BY <1>3
<1>5. /\ c.provider = conv.provider /\ c.history = conv.history /\ c.calls = <<>> /\ c.steps = conv.steps + 1
      /\ c.lit = conv.lit /\ c.current = conv.current
  BY <1>1, <1>4
<1>6. c = [provider |-> c.provider, history |-> c.history, calls |-> c.calls,
           steps |-> c.steps, lit |-> c.lit, current |-> c.current]
  BY <1>3
<1> HIDE DEF c
<1>7. /\ Heard(c.history, <<>>) /\ conv.steps \in Nat /\ conv.steps < MaxSteps
      /\ (c.provider # config.provider => config.fallback)
      /\ (\A i \in TurnsOf(c.history) : c.history[i].by \in ToSet(ModelsOf))
      /\ Listed(c.lit) /\ IsInjective(c.lit) /\ ToSet(c.lit) \subseteq AskedOf(c.history) \intersect Known
      /\ Cardinality(TurnsOf(c.history)) = c.steps /\ LastBy(c.history, c.current)
      /\ Listed(queue) /\ queue # <<>> /\ ToSet(queue) \subseteq ToSet(ModelsOf) /\ c.current = Head(queue)
  BY <1>1, <1>2, <1>5, ChatToSet DEF Talking, AtTools
<1>8. c.current \in ToSet(ModelsOf)
  <2>1. Head(queue) = queue[1] /\ 1 \in DOMAIN queue
    BY <1>7, TailIs, ListedIs
  <2> QED BY <1>7, <2>1, ChatToSet
<1>9. ModelsOf = Chat!Models(config, c.provider) /\ UNCHANGED config
  BY <1>1, <1>5 DEF ModelsOf
<1>10. CASE c.steps = MaxSteps
  <2>1. Chat!Answer(c, {})
    BY <1>1, <1>10
  <2>2. ToSet(c.lit) \subseteq Known
    BY <1>7
  <2>3. /\ chatPc' = "done" /\ conv' = c /\ UNCHANGED <<queue, tries>>
        /\ out'.error = "none" /\ out'.refs \subseteq Known
        /\ ToSet(out'.highlight) \subseteq ToSet(c.lit) \union out'.refs
        /\ out'.refs \union ToSet(out'.highlight) \subseteq out'.labels
        /\ IsInjective(out'.highlight) /\ Len(out'.highlight) <= MaxLit
        /\ out'.provider = c.provider /\ out'.model = c.current /\ (out'.fallback <=> c.provider # config.provider)
    BY <1>7, <2>1, <2>2, AnswerIs
  <2>4. Honest'
    BY <1>7, <1>8, <1>9, <2>3 DEF Honest
  <2> QED BY <2>3, <2>4 DEF ChatInv
<1>11. CASE c.steps # MaxSteps
  <2>1. Chat!Begin(config, c)
    BY <1>1, <1>11
  <2>2. c.steps \in Nat /\ c.steps < MaxSteps
    <3>1. \A m \in Nat, n \in Nat \ {0} : m < n /\ m + 1 # n => m + 1 \in Nat /\ m + 1 < n
      OBVIOUS
    <3> QED BY <1>5, <1>7, <1>11, <3>1, ChatAssumption
  <2>3. UNCHANGED out
    BY <2>1 DEF Chat!Begin
  <2> QED BY <1>2, <1>5, <1>6, <1>7, <1>8, <1>9, <2>1, <2>2, <2>3, ChatBegins
<1> QED BY <1>10, <1>11

LEMMA ChatStep == ChatInv /\ [Chat!Next]_(Chat!vars) => ChatInv'
<1> SUFFICES ASSUME ChatInv, [Chat!Next]_(Chat!vars) PROVE ChatInv'
  OBVIOUS
<1>1. CASE UNCHANGED <<chatPc, config, conv, queue, out>>
  BY <1>1 DEF ChatInv, Talking, AtStep, AtTools, Honest, ModelsOf
<1>2. CASE Chat!Overloaded
  <2>1. CASE tries + 1 < Chat!Attempts(conv.provider)
    BY <1>1, <1>2, <2>1 DEF Chat!Overloaded
  <2>2. CASE ~(tries + 1 < Chat!Attempts(conv.provider))
    <3>1. chatPc = "ask" /\ UNCHANGED config /\ Chat!NextModel
      BY <1>2, <2>2 DEF Chat!Overloaded
    <3> QED BY <3>1, ChatNextModel
  <2> QED BY <2>1, <2>2
<1>3. CASE Chat!Limited
  <2>1. chatPc = "ask" /\ UNCHANGED config /\ Chat!NextModel
    BY <1>3 DEF Chat!Limited
  <2> QED BY <2>1, ChatNextModel
<1>4. CASE Chat!Refuses
  <2>1. chatPc = "ask" /\ UNCHANGED config /\ Chat!Unavailable(FALSE)
    BY <1>4 DEF Chat!Refuses
  <2> QED BY <2>1, ChatUnavailable
<1>5. CASE Chat!Deliver
  <2>1. chatPc' = "idle" /\ out' = [error |-> "nothing"]
    BY <1>5 DEF Chat!Deliver, Chat!NoAnswer
  <2> QED BY <2>1 DEF ChatInv
<1>6. ASSUME NEW c \in Configs, Chat!Save(c) PROVE ChatInv'
  BY <1>1, <1>6 DEF Chat!Save
<1>7. CASE UNCHANGED Chat!vars
  BY <1>1, <1>7 DEF Chat!vars
<1>8. Chat!Next \/ UNCHANGED Chat!vars
  OBVIOUS
<1> QED BY <1>2, <1>3, <1>4, <1>5, <1>6, <1>7, <1>8, ChatAsk, ChatSays, ChatCalls, ChatRunTool, ChatNextStep
        DEF Chat!Next, Chat!Step

(* What a model reads: every call with its result, none of another turn.   *)
LEMMA ResultsAre ==
  ASSUME NEW h, Heard(h, <<>>), NEW i \in TurnsOf(h)
  PROVE  /\ Cardinality({j \in DOMAIN h : j > i /\ \A k \in (i + 1)..j : h[k].role = "tool"}) = Len(h[i].calls)
         /\ \A k \in 1..Len(h[i].calls) : h[i + k].id = h[i].calls[k].id
<1> DEFINE calls == h[i].calls
           n == Len(calls)
           S == {j \in DOMAIN h : j > i /\ \A k \in (i + 1)..j : h[k].role = "tool"}
<1>1. /\ Listed(h) /\ calls \in Turns
      /\ \A k \in 1..n : i + k \in DOMAIN h => h[i + k].role = "tool" /\ h[i + k].id = calls[k].id
      /\ \/ i + n + 1 \in DOMAIN h /\ h[i + n + 1].role = "model"
         \/ i + n = Len(h) + Len(<<>>)
  BY DEF Heard
<1>2. /\ Len(h) \in Nat /\ DOMAIN h = 1..Len(h) /\ i \in 1..Len(h) /\ n \in Nat /\ Len(<<>>) = 0
  BY <1>1, ListedIs, TurnsAre, ChatAssumption, ListedIf
<1> HIDE DEF n, calls
<1>3. \/ i + n + 1 \in 1..Len(h) /\ h[i + n + 1].role = "model"
      \/ i + n = Len(h)
  BY <1>1, <1>2
<1>4. i + n <= Len(h)
  BY <1>2, <1>3
<1>5. \A k \in 1..n : i + k \in 1..Len(h)
  BY <1>2, <1>4
<1>6. \A k \in (i + 1)..(i + n) : h[k].role = "tool"
  <2> SUFFICES ASSUME NEW k \in (i + 1)..(i + n) PROVE h[k].role = "tool"
    OBVIOUS
  <2>1. k - i \in 1..n /\ i + (k - i) = k
    BY <1>2
  <2> QED BY <1>1, <1>2, <1>5, <2>1
<1>7. S = (i + 1)..(i + n)
  <2>1. ASSUME NEW j \in S PROVE j \in (i + 1)..(i + n)
    <3>1. j \in 1..Len(h) /\ j > i /\ \A k \in (i + 1)..j : h[k].role = "tool"
      BY <1>2
    <3>2. ASSUME j > i + n PROVE FALSE
      <4>1. i + n + 1 \in (i + 1)..j
        BY <1>2, <3>1, <3>2
      <4>2. h[i + n + 1].role = "tool"
        BY <3>1, <4>1
      <4>3. i + n = Len(h)
        BY <1>3, <4>2
      <4> QED BY <1>2, <3>1, <3>2, <4>3
    <3> QED BY <1>2, <3>1, <3>2
  <2>2. ASSUME NEW j \in (i + 1)..(i + n) PROVE j \in S
    <3>1. j \in 1..Len(h) /\ j > i
      BY <1>2, <1>4
    <3>2. \A k \in (i + 1)..j : k \in (i + 1)..(i + n)
      BY <1>2
    <3> QED BY <1>2, <1>6, <3>1, <3>2
  <2> HIDE DEF S
  <2> QED BY <2>1, <2>2
<1>8. Cardinality((i + 1)..(i + n)) = n
  <2>1. i + 1 \in Int /\ i + n \in Int
    BY <1>2
  <2>2. Cardinality((i + 1)..(i + n)) = IF i + 1 > i + n THEN 0 ELSE (i + n) - (i + 1) + 1
    BY <2>1, FS_Interval
  <2> QED BY <1>2, <2>2
<1>9. \A k \in 1..n : h[i + k].id = calls[k].id
  BY <1>1, <1>2, <1>5
<1> QED BY <1>7, <1>8, <1>9 DEF n, calls

(* A model is sent one whole conversation with its provider, every call    *)
(* with its result before the next turn, and the step starts at the model  *)
(* that wrote the last turn; an answer is about the map and of one         *)
(* conversation (chat, _generate, answer): for any models, turns, tools,   *)
(* settings, failures and numbers of steps and attempts.                   *)
THEOREM AssistantIsHonest == MapSpec => []AssistantHonest
<1>1. ChatInv => AssistantHonest
  <2> SUFFICES ASSUME ChatInv PROVE Chat!ConversationWhole /\ Chat!AnswerHonest
    BY DEF AssistantHonest, Chat!AssistantHonest
  <2>1. Chat!AnswerHonest
    <3> SUFFICES ASSUME out.error = "none" PROVE Chat!AnswerHonest
      BY DEF Chat!AnswerHonest, Chat!None
    <3>1. Honest
      BY DEF ChatInv
    <3> QED BY <3>1, ChatToSet DEF Honest, Chat!AnswerHonest, AskedOf, TurnsOf, Chat!IsInjective, IsInjective
  <2>2. Chat!ConversationWhole
    <3> DEFINE h == conv.history
               After(i) == Cardinality({j \in DOMAIN h : j > i /\ \A k \in (i + 1)..j : h[k].role = "tool"})
    <3> SUFFICES ASSUME chatPc = "ask"
                 PROVE  /\ Cardinality(TurnsOf(h)) = conv.steps /\ conv.steps < MaxSteps
                        /\ h # <<>> => h[1].role = "model"
                        /\ \A i \in TurnsOf(h) : /\ h[i].by \in Chat!ToSet(ModelsOf)
                                                 /\ After(i) = Len(h[i].calls)
                                                 /\ \A k \in 1..Len(h[i].calls) : h[i + k].id = h[i].calls[k].id
                        /\ h # <<>> /\ Len(queue) = Len(ModelsOf)
                             => \A i \in TurnsOf(h) : (\A j \in TurnsOf(h) : j <= i) => h[i].by = Head(queue)
      BY Zenon DEF Chat!ConversationWhole, Chat!Cardinality, Cardinality, TurnsOf, ModelsOf
    <3>1. Talking /\ AtStep
      BY DEF ChatInv
    <3>2. Heard(h, <<>>)
      BY <3>1 DEF Talking, AtStep
    <3>3. \A i \in TurnsOf(h) : /\ After(i) = Len(h[i].calls)
                                /\ \A k \in 1..Len(h[i].calls) : h[i + k].id = h[i].calls[k].id
      <4> HIDE DEF h
      <4> QED BY <3>2, ResultsAre
    <3>4. h # <<>> => h[1].role = "model"
      BY <3>2 DEF Heard
    <3> HIDE DEF After
    <3> QED BY <3>1, <3>3, <3>4 DEF Talking, AtStep, LastBy
  <2> QED BY <2>1, <2>2
<1> QED BY <1>1, ChatStart, ChatStep, PartChat, PTL

-----------------------------------------------------------------------------
(* What a sync keeps without asking *)

Tip == Versions[tip]
WholeFacts == Kept!Extract(Tip.tree, Tip.says, FALSE)
(* Facts of a commit are all that it says, if it is still the tip of the   *)
(* branch and GitHub lists the whole of it.                                *)
Exact(sha, facts) == sha = tip /\ Tip.listed = Tip.tree => facts = WholeFacts
LastKnown == Kept!LastFacts(snap)

(* What is stored: a snapshot of an older commit says nothing of the tip,  *)
(* and there are signals and requests of components only.                  *)
StoredInv ==
  /\ tip \in 1..Len(Versions) /\ listing \in 1..Len(Listings)
  /\ snap # Kept!NoRow => /\ snap = [sha |-> snap.sha, facts |-> snap.facts, at |-> snap.at]
                          /\ snap.sha \in 1..tip /\ Exact(snap.sha, snap.facts)
  /\ comp # Kept!NoRow => comp = [ctype |-> comp.ctype, parent |-> comp.parent, attrs |-> comp.attrs]
  /\ qa # Kept!NoRow => comp # Kept!NoRow /\ qa = [observed |-> qa.observed, manual |-> qa.manual]
  /\ req # Kept!NoRow => comp # Kept!NoRow /\ (req.row # Kept!NoRow => qa # Kept!NoRow)
  /\ Cardinality(Kept!Ids(rule)) = Len(rule)

(* What a run has read: nothing new yet, files of its commit but for those *)
(* that it still asks for, or facts that are exact or the last ones.       *)
Reads ==
  keepMem = [known |-> keepMem.known, asked |-> keepMem.asked, snap |-> keepMem.snap, facts |-> keepMem.facts,
             sha |-> keepMem.sha, touched |-> keepMem.touched, paths |-> keepMem.paths, files |-> keepMem.files,
             todo |-> keepMem.todo]
Gathered(files, todo) ==
  LET asks == Kept!Wanted(Tip.listed) \intersect DOMAIN Tip.says IN
  /\ files = [p \in DOMAIN files |-> Tip.says[p]] /\ DOMAIN files \subseteq asks
  /\ asks \subseteq DOMAIN files \union ToSet(todo)
Holds(m) ==
  /\ m.sha = 0 => m.facts = LastKnown
  /\ m.sha # 0 => m.sha \in 1..tip /\ Exact(m.sha, m.facts)
  /\ m.touched => m.sha = 0 /\ snap # Kept!NoRow
RunInv ==
  /\ keepPc \in {"idle", "tree", "files", "pages", "commit", "done"}
  /\ keepPc = "tree" =>
       /\ Reads /\ keepMem.sha = 0 /\ keepMem.touched = FALSE /\ keepMem.snap = snap /\ keepMem.facts = LastKnown
       /\ keepMem.files = [p \in {} |-> Kept!None]
  /\ keepPc = "files" =>
       /\ Reads /\ keepMem.sha \in 1..tip /\ keepMem.touched = FALSE /\ keepMem.facts = LastKnown
       /\ keepMem.paths = Versions[keepMem.sha].listed
       /\ Listed(keepMem.todo) /\ ToSet(keepMem.todo) \subseteq Kept!Wanted(keepMem.paths)
       /\ keepMem.sha = tip => Gathered(keepMem.files, keepMem.todo)
  /\ keepPc \in {"pages", "commit"} => Holds(keepMem)
  /\ keepPc = "commit" => /\ keepMem.node # Kept!NoRow => comp # Kept!NoRow
                          /\ keepMem.pages # 0 => keepMem.pages \in 1..Len(Listings)
KeptInv == StoredInv /\ RunInv

(* The operators of the instance are those of the libraries. *)
LEMMA KeptOperators ==
  /\ \A s : Kept!ToSet(s) = ToSet(s) /\ Kept!FlattenSeq(s) = FlattenSeq(s)
  /\ \A S : Kept!SetToSeq(S) = SetToSeq(S) /\ Kept!Min(S) = Min(S) /\ Kept!Cardinality(S) = Cardinality(S)
<1>1. \A s : Kept!ToSet(s) = ToSet(s)
  BY Zenon DEF Kept!ToSet, ToSet
<1>2. \A s : Kept!FlattenSeq(s) = FlattenSeq(s)
  BY Zenon DEF Kept!FlattenSeq, FlattenSeq
<1>3. \A S : Kept!SetToSeq(S) = SetToSeq(S)
  BY Zenon DEF Kept!SetToSeq, SetToSeq, Kept!IsInjective, IsInjective, Kept!Cardinality, Cardinality
<1>4. \A S : Kept!Min(S) = Min(S)
  BY Zenon DEF Kept!Min, Min
<1>5. \A S : Kept!Cardinality(S) = Cardinality(S)
  BY Zenon DEF Kept!Cardinality, Cardinality
<1> QED BY <1>1, <1>2, <1>3, <1>4, <1>5

LEMMA TipIs == ASSUME NEW i \in 1..Len(Versions) PROVE Versions[i] \in ToSet(Versions)
  BY SignalsAssumption, ElementOfSeq

(* The first values file is that of any part that has it. *)
LEMMA HelmIs ==
  ASSUME NEW A, NEW B, A \subseteq B, Kept!HelmOf(B) \subseteq A
  PROVE  Kept!HelmOf(A) = Kept!HelmOf(B)
<1> DEFINE there(P) == {i \in DOMAIN HelmFiles : HelmFiles[i] \in P}
<1>1. \A P : Kept!HelmOf(P) = IF there(P) = {} THEN {} ELSE {HelmFiles[Min(there(P))]}
  BY KeptOperators DEF Kept!HelmOf
<1>2. there(A) \subseteq there(B) /\ there(B) \subseteq Nat
  <2>1. DOMAIN HelmFiles \subseteq Nat
    BY SignalsAssumption, LenProperties
  <2> QED BY <2>1
<1>3. CASE there(B) = {}
  <2>1. there(A) = {}
    BY <1>2, <1>3
  <2> HIDE DEF there
  <2> QED BY <1>1, <1>3, <2>1
<1>4. CASE there(B) # {}
  <2>1. PICK m \in there(B) : \A x \in there(B) : m <= x
    <3> HIDE DEF there
    <3> QED BY <1>2, <1>4, LeastNat
  <2>2. Min(there(B)) = m
    <3> HIDE DEF there
    <3> QED BY <1>2, <2>1, MinIs
  <2>3. m \in there(A)
    <3>1. Kept!HelmOf(B) = {HelmFiles[m]}
      <4> HIDE DEF there
      <4> QED BY <1>1, <1>4, <2>2
    <3> QED BY <2>1, <3>1
  <2> HIDE DEF there
  <2>4. Min(there(A)) = m
    <3>1. there(A) \subseteq Nat /\ \A x \in there(A) : m <= x
      BY <1>2, <2>1
    <3> QED BY <2>3, <3>1, MinIs
  <2>5. there(A) # {}
    BY <2>3
  <2> QED BY <1>1, <1>4, <2>2, <2>4, <2>5
<1> QED BY <1>3, <1>4

(* All the files that are wanted of a commit say all that it says. *)
LEMMA FilesSay ==
  ASSUME NEW v \in ToSet(Versions), NEW files,
         DOMAIN files = Kept!Wanted(v.tree) \intersect DOMAIN v.says,
         \A p \in DOMAIN files : files[p] = v.says[p]
  PROVE  Kept!Extract(v.tree, files, FALSE) = Kept!Extract(v.tree, v.says, FALSE)
<1> DEFINE A == DOMAIN files
           helm == Kept!HelmOf(v.tree)
<1>1. /\ helm \subseteq DOMAIN v.says /\ DOMAIN v.says \subseteq v.tree
      /\ \A p \in DOMAIN v.says \ Kept!Wanted(v.tree) : DOMAIN v.says[p] \subseteq {"ns"}
  BY SignalsAssumption
<1>2. helm \subseteq A /\ A \subseteq v.tree
  BY <1>1 DEF Kept!Wanted
<1>3. Kept!HelmOf(A) = helm /\ Kept!HelmOf(DOMAIN v.says) = helm
  BY <1>1, <1>2, HelmIs
<1>4. UNION {files[p].ns : p \in Kept!HelmOf(A)} = UNION {v.says[p].ns : p \in Kept!HelmOf(DOMAIN v.says)}
  <2>1. \A p \in helm : files[p].ns = v.says[p].ns
    BY <1>2
  <2> HIDE DEF helm
  <2> QED BY <1>3, <2>1
<1>5. ASSUME NEW kind, kind # "ns" PROVE Kept!Said(files, kind) = Kept!Said(v.says, kind)
  <2>1. \A p : p \in A /\ kind \in DOMAIN files[p] <=> p \in DOMAIN v.says /\ kind \in DOMAIN v.says[p]
    BY <1>1, <1>5
  <2>2. {p \in A : kind \in DOMAIN files[p]} = {p \in DOMAIN v.says : kind \in DOMAIN v.says[p]}
    BY <2>1
  <2>3. \A p \in A : files[p][kind] = v.says[p][kind]
    OBVIOUS
  <2> QED BY <2>2, <2>3 DEF Kept!Said
<1>6. /\ Kept!Said(files, "domain") = Kept!Said(v.says, "domain")
      /\ Kept!Said(files, "fw") = Kept!Said(v.says, "fw")
      /\ Kept!Said(files, "owners") = Kept!Said(v.says, "owners")
      /\ Kept!Said(files, "links") = Kept!Said(v.says, "links")
      /\ Kept!Said(files, "flows") = Kept!Said(v.says, "flows")
  BY <1>5
<1> QED BY <1>4, <1>6 DEF Kept!Extract

-----------------------------------------------------------------------------
(* What is stored and what a run holds, step by step *)

LEMMA RowsAre ==
  /\ \A a, b, c : [ctype |-> a, parent |-> b, attrs |-> c] # Kept!NoRow
  /\ \A a, b : [observed |-> a, manual |-> b] # Kept!NoRow
  /\ \A a, b, c : [sha |-> a, facts |-> b, at |-> c] # Kept!NoRow
  /\ \A a, b : [row |-> a, value |-> b] # Kept!NoRow
<1>1. DOMAIN Kept!NoRow = {"row"}
  BY DEF Kept!NoRow
<1>2. /\ \A a, b, c : "ctype" \in DOMAIN [ctype |-> a, parent |-> b, attrs |-> c]
      /\ \A a, b : "manual" \in DOMAIN [observed |-> a, manual |-> b]
      /\ \A a, b, c : "sha" \in DOMAIN [sha |-> a, facts |-> b, at |-> c]
      /\ \A a, b : "value" \in DOMAIN [row |-> a, value |-> b]
  OBVIOUS
<1> QED BY <1>1, <1>2

LEMMA KeptStart == Kept!Init => KeptInv
<1> SUFFICES ASSUME Kept!Init PROVE KeptInv
  OBVIOUS
<1> USE DEF Kept!Init
<1>1. Len(Versions) \in Nat /\ Len(Versions) # 0 /\ Len(Listings) \in Nat /\ Len(Listings) # 0
  <2>1. Listed(Versions) /\ Listed(Listings) /\ Versions # <<>> /\ Listings # <<>>
    BY SignalsAssumption DEF Listed
  <2> QED BY <2>1, ListedIs
<1>2. Cardinality(Kept!Ids(rule)) = Len(rule)
  <2>1. rule = <<>> /\ DOMAIN rule = {} /\ Len(rule) = 0
    OBVIOUS
  <2>2. Kept!Ids(rule) = {}
    BY <2>1 DEF Kept!Ids
  <2> QED BY <2>1, <2>2, FS_EmptySet
<1>3. tip \in 1..Len(Versions) /\ listing \in 1..Len(Listings)
  BY <1>1
<1>4. comp # Kept!NoRow => comp = [ctype |-> comp.ctype, parent |-> comp.parent, attrs |-> comp.attrs]
  OBVIOUS
<1>5. StoredInv
  BY <1>2, <1>3, <1>4 DEF StoredInv
<1>6. RunInv
  BY DEF RunInv
<1> QED BY <1>5, <1>6 DEF KeptInv

(* Steps of the run write nothing but its memory, until it commits. *)
LEMMA StoredBeside ==
  ASSUME StoredInv, UNCHANGED <<tip, listing, snap, comp, qa, req, rule>>
  PROVE  StoredInv' /\ LastKnown' = LastKnown
<1>1. LastKnown' = LastKnown
  BY DEF LastKnown, Kept!LastFacts
<1>2. StoredInv'
  BY DEF StoredInv, Exact, Tip, WholeFacts, Kept!Ids
<1> QED BY <1>1, <1>2

LEMMA KeptCensus == ASSUME KeptInv, Kept!Census PROVE KeptInv'
<1>1. StoredInv' /\ LastKnown' = LastKnown
  BY StoredBeside DEF KeptInv, Kept!Census
<1> DEFINE m == [known |-> comp # Kept!NoRow, asked |-> asked # Kept!NoRow, snap |-> snap, facts |-> Kept!LastFacts(snap),
                 sha |-> 0, touched |-> FALSE, paths |-> {}, files |-> [p \in {} |-> Kept!None], todo |-> <<>>]
<1>2. keepMem' = m /\ keepPc' \in {"tree", "pages"} /\ snap' = snap
  BY DEF Kept!Census, Kept!Goto
<1>3. /\ m = [known |-> m.known, asked |-> m.asked, snap |-> m.snap, facts |-> m.facts, sha |-> m.sha,
              touched |-> m.touched, paths |-> m.paths, files |-> m.files, todo |-> m.todo]
      /\ m.sha = 0 /\ m.touched = FALSE /\ m.snap = snap /\ m.facts = LastKnown
      /\ m.files = [p \in {} |-> Kept!None]
  BY DEF LastKnown
<1> HIDE DEF m
<1> QED BY <1>1, <1>2, <1>3 DEF KeptInv, RunInv, Reads, Holds

LEMMA KeptSourceError == ASSUME KeptInv, Kept!SourceError PROVE KeptInv'
<1>1. StoredInv' /\ LastKnown' = LastKnown
  BY StoredBeside DEF KeptInv, Kept!SourceError
<1>2. keepPc \in {"tree", "files"} /\ keepPc' = "pages" /\ keepMem' = [keepMem EXCEPT !.sha = 0]
  BY DEF Kept!SourceError, Kept!Goto
<1>3. Reads /\ keepMem.touched = FALSE /\ keepMem.facts = LastKnown
  BY <1>2 DEF KeptInv, RunInv
<1>4. keepMem'.sha = 0 /\ keepMem'.touched = FALSE /\ keepMem'.facts = LastKnown
  BY <1>2, <1>3 DEF Reads
<1>5. Holds(keepMem)'
  BY <1>1, <1>4 DEF Holds
<1>6. RunInv'
  BY <1>2, <1>5 DEF RunInv, Holds
<1> QED BY <1>1, <1>6 DEF KeptInv

LEMMA KeptReadRows == ASSUME KeptInv, Kept!ReadRows PROVE KeptInv'
<1>1. StoredInv' /\ LastKnown' = LastKnown
  BY StoredBeside DEF KeptInv, Kept!ReadRows
<1>2. PICK read \in BOOLEAN :
        /\ keepPc = "pages" /\ keepPc' = "commit"
        /\ keepMem' = [known |-> keepMem.known, asked |-> keepMem.asked, sha |-> keepMem.sha, touched |-> keepMem.touched,
                       facts |-> keepMem.facts, pages |-> IF read THEN listing ELSE 0, node |-> comp, row |-> qa, at |-> now]
  BY DEF Kept!ReadRows, Kept!Goto
<1>3. Holds(keepMem) /\ listing \in 1..Len(Listings)
  BY <1>2 DEF KeptInv, RunInv, StoredInv
<1>4. UNCHANGED <<tip, snap, comp, listing>>
  BY DEF Kept!ReadRows
<1>5. Holds(keepMem)'
  BY <1>1, <1>2, <1>3, <1>4 DEF Holds, Exact, Tip, WholeFacts
<1>6. keepMem'.node = comp /\ (keepMem'.pages # 0 => keepMem'.pages = listing)
  BY <1>2
<1>7. RunInv'
  BY <1>2, <1>3, <1>4, <1>5, <1>6 DEF RunInv
<1> QED BY <1>1, <1>7 DEF KeptInv

LEMMA KeptEnd == ASSUME KeptInv, Kept!End PROVE KeptInv'
<1>1. StoredInv'
  BY StoredBeside DEF KeptInv, Kept!End
<1>2. RunInv'
  BY DEF Kept!End, Kept!Goto, RunInv
<1> QED BY <1>1, <1>2 DEF KeptInv

LEMMA KeptPush == ASSUME KeptInv, Kept!Push PROVE KeptInv'
<1>1. tip \in Nat /\ tip' = tip + 1 /\ tip' \in 1..Len(Versions) /\ \A n \in 1..tip : n \in 1..tip' /\ n # tip'
  BY SignalsAssumption, LenProperties DEF Kept!Push, KeptInv, StoredInv
<1>2. UNCHANGED <<listing, snap, comp, qa, req, rule, keepPc, keepMem>>
  BY DEF Kept!Push
<1>3. LastKnown' = LastKnown
  BY <1>2 DEF LastKnown, Kept!LastFacts
<1>4. StoredInv'
  BY <1>1, <1>2 DEF KeptInv, StoredInv, Exact, Kept!Ids
<1>5. RunInv'
  <2>1. Holds(keepMem) => Holds(keepMem)'
    BY <1>1, <1>2, <1>3 DEF Holds, Exact
  <2>2. Reads => Reads'
    BY <1>2 DEF Reads
  <2>3. keepPc = "files" => keepMem.sha \in 1..tip' /\ keepMem.sha # tip'
    BY <1>1 DEF KeptInv, RunInv
  <2>4. keepPc = "files" => keepMem'.sha \in 1..tip' /\ (keepMem'.sha = tip' => Gathered(keepMem.files, keepMem.todo)')
    BY <1>2, <2>3
  <2>5. keepPc \in {"pages", "commit"} => Holds(keepMem)'
    BY <2>1 DEF KeptInv, RunInv
  <2>6. keepPc' \in {"idle", "tree", "files", "pages", "commit", "done"}
    BY <1>2 DEF KeptInv, RunInv
  <2>7. (keepPc = "tree" => Reads /\ keepMem.sha = 0 /\ keepMem.touched = FALSE /\ keepMem.snap = snap /\ keepMem.facts = LastKnown
                           /\ keepMem.files = [p \in {} |-> Kept!None])'
    BY <1>2, <1>3, <2>2 DEF KeptInv, RunInv
  <2>8. (keepPc = "files" =>
          /\ Reads /\ keepMem.touched = FALSE /\ keepMem.facts = LastKnown
          /\ keepMem.paths = Versions[keepMem.sha].listed
          /\ Listed(keepMem.todo) /\ ToSet(keepMem.todo) \subseteq Kept!Wanted(keepMem.paths))'
    BY <1>2, <1>3, <2>2 DEF KeptInv, RunInv
  <2>9. (keepPc = "commit" => /\ keepMem.node # Kept!NoRow => comp # Kept!NoRow
                              /\ keepMem.pages # 0 => keepMem.pages \in 1..Len(Listings))'
    BY <1>2 DEF KeptInv, RunInv
  <2> QED BY ONLY <1>2, <2>4, <2>5, <2>6, <2>7, <2>8, <2>9 DEF RunInv
<1> QED BY <1>4, <1>5 DEF KeptInv

LEMMA KeptMovePages == ASSUME KeptInv, Kept!MovePages PROVE KeptInv'
<1>1. listing' \in 1..Len(Listings)
  <2>1. Len(Listings) \in Nat
    BY SignalsAssumption, LenProperties
  <2>2. listing \in 1..Len(Listings) /\ listing < Len(Listings) /\ listing' = listing + 1
    BY DEF Kept!MovePages, KeptInv, StoredInv
  <2> QED BY <2>1, <2>2
<1>2. UNCHANGED <<tip, snap, comp, qa, req, rule, keepPc, keepMem>>
  BY DEF Kept!MovePages
<1>3. StoredInv'
  BY <1>1, <1>2 DEF KeptInv, StoredInv, Exact, Tip, WholeFacts, Kept!Ids
<1>4. RunInv'
  BY <1>2 DEF KeptInv, RunInv, Reads, Holds, Exact, Tip, WholeFacts, LastKnown, Kept!LastFacts, Gathered
<1> QED BY <1>3, <1>4 DEF KeptInv

(* People *)
LEMMA RunBeside ==
  ASSUME RunInv, UNCHANGED <<tip, snap, keepPc, keepMem>>, comp # Kept!NoRow => comp' # Kept!NoRow
  PROVE  RunInv'
  BY DEF RunInv, Reads, Holds, Exact, Tip, WholeFacts, LastKnown, Kept!LastFacts, Gathered

LEMMA KeptApprove == ASSUME KeptInv, Kept!Approve PROVE KeptInv' /\ qa = Kept!NoRow
<1>1. PICK i \in DOMAIN Products : comp' = [ctype |-> asked.ctype, parent |-> Products[i].id, attrs |-> asked.attrs]
  BY DEF Kept!Approve
<1>2. comp = Kept!NoRow /\ qa = Kept!NoRow /\ req = Kept!NoRow
  BY DEF Kept!Approve, KeptInv, StoredInv
<1>3. comp' # Kept!NoRow /\ comp' = [ctype |-> comp'.ctype, parent |-> comp'.parent, attrs |-> comp'.attrs]
  <2>1. \A a, b, c : LET n == [ctype |-> a, parent |-> b, attrs |-> c] IN n = [ctype |-> n.ctype, parent |-> n.parent, attrs |-> n.attrs]
    OBVIOUS
  <2> QED BY <1>1, <2>1, RowsAre
<1>4. qa' = [observed |-> qa'.observed, manual |-> qa'.manual]
  BY DEF Kept!Approve
<1>5. UNCHANGED <<tip, listing, snap, rule, keepPc, keepMem, req>>
  BY DEF Kept!Approve
<1>6. StoredInv'
  BY <1>2, <1>3, <1>4, <1>5 DEF KeptInv, StoredInv, Exact, Tip, WholeFacts, Kept!Ids
<1> QED BY <1>2, <1>3, <1>5, <1>6, RunBeside DEF KeptInv

LEMMA KeptUpdateQa == ASSUME KeptInv, NEW v \in Values, Kept!UpdateQa(v) PROVE KeptInv'
<1>1. /\ UNCHANGED <<tip, listing, snap, comp, qa, rule, keepPc, keepMem>>
      /\ comp # Kept!NoRow /\ req' = [row |-> qa, value |-> v]
  BY DEF Kept!UpdateQa
<1>2. req'.row = qa
  BY <1>1
<1>3. StoredInv'
  BY <1>1, <1>2 DEF KeptInv, StoredInv, Exact, Tip, WholeFacts, Kept!Ids
<1> QED BY <1>1, <1>3, RunBeside DEF KeptInv

LEMMA KeptCommitQa ==
  ASSUME KeptInv, Kept!CommitQa
  PROVE  KeptInv' /\ (qa # Kept!NoRow /\ qa' # qa => qa' = [observed |-> qa.observed, manual |-> req.value])
<1>1. UNCHANGED <<tip, listing, snap, comp, rule, keepPc, keepMem>> /\ req # Kept!NoRow /\ req' = Kept!NoRow
  BY DEF Kept!CommitQa
<1>2. comp # Kept!NoRow /\ (req.row # Kept!NoRow => qa # Kept!NoRow)
  BY <1>1 DEF KeptInv, StoredInv
<1>3. qa # Kept!NoRow => qa = [observed |-> qa.observed, manual |-> qa.manual]
  BY DEF KeptInv, StoredInv
<1> DEFINE written == qa # Kept!NoRow /\ qa' # qa => qa' = [observed |-> qa.observed, manual |-> req.value]
           goal == (qa' # Kept!NoRow => qa' = [observed |-> qa'.observed, manual |-> qa'.manual]) /\ written
<1>4. ASSUME req.row # Kept!NoRow PROVE goal
  <2>1. qa' = [qa EXCEPT !.manual = req.value]
    BY <1>4 DEF Kept!CommitQa
  <2>2. \A a, b, c : [[observed |-> a, manual |-> b] EXCEPT !.manual = c] = [observed |-> a, manual |-> c]
    OBVIOUS
  <2>3. qa' = [observed |-> qa.observed, manual |-> req.value]
    BY <1>2, <1>3, <1>4, <2>1, <2>2
  <2>4. \A a, b : LET q == [observed |-> a, manual |-> b] IN q = [observed |-> q.observed, manual |-> q.manual]
    OBVIOUS
  <2> QED BY <2>3, <2>4
<1>5. ASSUME req.row = Kept!NoRow, qa = Kept!NoRow PROVE goal
  <2>1. qa' = [observed |-> Kept!Nothing, manual |-> req.value]
    BY <1>5 DEF Kept!CommitQa
  <2>2. \A a, b : LET q == [observed |-> a, manual |-> b] IN q = [observed |-> q.observed, manual |-> q.manual]
    OBVIOUS
  <2> QED BY <1>5, <2>1, <2>2
<1>6. ASSUME req.row = Kept!NoRow, qa # Kept!NoRow PROVE goal
  BY <1>3, <1>6 DEF Kept!CommitQa
<1>7. goal
  BY <1>4, <1>5, <1>6
<1> HIDE DEF goal, written
<1>8. StoredInv'
  <2>1. qa' # Kept!NoRow => comp' # Kept!NoRow /\ qa' = [observed |-> qa'.observed, manual |-> qa'.manual]
    BY <1>1, <1>2, <1>7 DEF goal
  <2> QED BY <1>1, <2>1 DEF KeptInv, StoredInv, Exact, Tip, WholeFacts, Kept!Ids
<1> QED BY <1>1, <1>7, <1>8, RunBeside DEF KeptInv, goal, written

-----------------------------------------------------------------------------
(* Members of a sequence, in an order *)

Orders(R, I) ==
  /\ \A i \in I : <<i, i>> \notin R
  /\ \A i, j \in I : i # j => <<i, j>> \in R \/ <<j, i>> \in R
  /\ \A i, j, k \in I : <<i, j>> \in R /\ <<j, k>> \in R => <<i, k>> \in R

(* The indices, the way they come *)
Comes(f, r, s, I, R) ==
  LET n == Cardinality(I) IN
  /\ n \in Nat /\ f \in [1..n -> I] /\ \A i \in I : \E m \in 1..n : f[m] = i
  /\ \A a, b \in 1..n : a < b => <<f[a], f[b]>> \in R
  /\ r = [m \in 1..n |-> s[f[m]]]
  /\ Listed(r) /\ Len(r) = n /\ DOMAIN r = 1..n

LEMMA RankedIs ==
  ASSUME NEW s, NEW I, IsFiniteSet(I), NEW R, Orders(R, I)
  PROVE  \E f : Comes(f, Kept!Ranked(s, I, R), s, I, R)
<1> DEFINE n == Cardinality(I)
           low(k) == {i \in I : <<k, i>> \notin R}
           Nth(m) == CHOOSE k \in I : Kept!Cardinality({i \in I : <<k, i>> \notin R}) = m
           rank == [k \in I |-> Cardinality(low(k))]
           f == [m \in 1..n |-> Nth(m)]
           r == Kept!Ranked(s, I, R)
<1>1. r = [m \in 1..Kept!Cardinality(I) |-> s[Nth(m)]]
  BY Zenon DEF Kept!Ranked
<1>2. \A S : Kept!Cardinality(S) = Cardinality(S)
  BY KeptOperators
<1>3. n \in Nat
  BY FS_CardinalityType
<1>4. \A k \in I : /\ IsFiniteSet(low(k)) /\ Cardinality(low(k)) \in Nat /\ Cardinality(low(k)) <= n
                   /\ Cardinality(low(k)) # 0
  <2> SUFFICES ASSUME NEW k \in I
               PROVE  /\ IsFiniteSet(low(k)) /\ Cardinality(low(k)) \in Nat /\ Cardinality(low(k)) <= n
                      /\ Cardinality(low(k)) # 0
    OBVIOUS
  <2>1. low(k) \in SUBSET I /\ k \in low(k)
    BY DEF Orders
  <2> HIDE DEF low
  <2>2. IsFiniteSet(low(k)) /\ Cardinality(low(k)) <= n
    BY <2>1, FS_Subset
  <2> QED BY <2>1, <2>2, FS_CardinalityType, FS_EmptySet
<1>5. \A j, k \in I : <<j, k>> \in R => rank[j] < rank[k]
  <2> SUFFICES ASSUME NEW j \in I, NEW k \in I, <<j, k>> \in R PROVE rank[j] < rank[k]
    OBVIOUS
  <2>1. low(j) \subseteq low(k) /\ k \in low(k) /\ k \notin low(j)
    BY DEF Orders
  <2>2. low(j) \in SUBSET low(k) /\ low(j) # low(k)
    BY <2>1
  <2>3. rank[j] = Cardinality(low(j)) /\ rank[k] = Cardinality(low(k))
    OBVIOUS
  <2> HIDE DEF low, rank, n
  <2>4. Cardinality(low(j)) <= Cardinality(low(k)) /\ Cardinality(low(j)) # Cardinality(low(k))
    BY <1>4, <2>2, FS_Subset
  <2> QED BY <1>4, <2>3, <2>4
<1>6. rank \in [I -> 1..n]
  <2> HIDE DEF low, n
  <2>1. \A k \in I : Cardinality(low(k)) \in 1..n
    BY <1>3, <1>4
  <2> QED BY <2>1
<1>7. rank \in Injection(I, 1..n)
  <2> SUFFICES ASSUME NEW j \in I, NEW k \in I, j # k PROVE rank[j] # rank[k]
    <3> HIDE DEF rank, n
    <3> QED BY <1>6 DEF Injection, IsInjective
  <2>1. <<j, k>> \in R \/ <<k, j>> \in R
    BY DEF Orders
  <2>2. rank[j] \in 1..n /\ rank[k] \in 1..n
    <3> HIDE DEF rank, n
    <3> QED BY <1>6
  <2> HIDE DEF rank, n
  <2> QED BY <1>5, <2>1, <2>2
<1>8. rank \in Surjection(I, 1..n)
  <2>1. IsFiniteSet(1..n) /\ Cardinality(1..n) = n
    BY <1>3, FS_Interval
  <2> HIDE DEF rank
  <2> QED BY <1>7, <2>1, FS_Injection
<1>9. \A m \in 1..n : f[m] \in I /\ rank[f[m]] = m
  <2> SUFFICES ASSUME NEW m \in 1..n PROVE f[m] \in I /\ rank[f[m]] = m
    OBVIOUS
  <2>1. PICK k \in I : rank[k] = m
    <3> HIDE DEF rank, n
    <3> QED BY <1>8 DEF Surjection
  <2>2. Kept!Cardinality({i \in I : <<k, i>> \notin R}) = m
    <3>1. rank[k] = Cardinality({i \in I : <<k, i>> \notin R})
      OBVIOUS
    <3> QED BY <1>2, <2>1, <3>1
  <2>3. Nth(m) \in I /\ Kept!Cardinality({i \in I : <<Nth(m), i>> \notin R}) = m
    BY <2>2
  <2>4. f[m] = Nth(m)
    OBVIOUS
  <2> HIDE DEF Nth, f
  <2>5. rank[Nth(m)] = Cardinality({i \in I : <<Nth(m), i>> \notin R})
    BY <2>3
  <2> QED BY <1>2, <2>3, <2>4, <2>5
<1>10. f \in [1..n -> I]
  <2> HIDE DEF n, Nth
  <2>1. f = [m \in 1..n |-> f[m]]
    OBVIOUS
  <2> HIDE DEF f, n, rank
  <2> QED BY <1>9, <2>1
<1>11. \A i \in I : \E m \in 1..n : f[m] = i
  <2> SUFFICES ASSUME NEW i \in I PROVE \E m \in 1..n : f[m] = i
    OBVIOUS
  <2> HIDE DEF f, n, rank
  <2>1. rank[i] \in 1..n
    BY <1>6
  <2>2. f[rank[i]] \in I /\ rank[f[rank[i]]] = rank[i]
    BY <1>9, <2>1
  <2>3. f[rank[i]] = i
    BY <1>7, <2>2 DEF Injection, IsInjective
  <2> QED BY <2>1, <2>3
<1>12. \A a, b \in 1..n : a < b => <<f[a], f[b]>> \in R
  <2> SUFFICES ASSUME NEW a \in 1..n, NEW b \in 1..n, a < b PROVE <<f[a], f[b]>> \in R
    OBVIOUS
  <2> HIDE DEF f, n, rank
  <2>1. f[a] \in I /\ f[b] \in I /\ rank[f[a]] = a /\ rank[f[b]] = b
    BY <1>9
  <2>2. f[a] # f[b] /\ ~(b < a)
    BY <1>3, <2>1
  <2>3. <<f[b], f[a]>> \notin R
    BY <1>5, <2>1, <2>2
  <2> QED BY <2>1, <2>2, <2>3 DEF Orders
<1>13. r = [m \in 1..n |-> s[f[m]]]
  <2>1. r = [m \in 1..n |-> s[Nth(m)]]
    BY <1>1, <1>2
  <2>2. \A m \in 1..n : f[m] = Nth(m)
    OBVIOUS
  <2> HIDE DEF f, n, r, Nth
  <2> QED BY <2>1, <2>2
<1>14. Listed(r) /\ Len(r) = n /\ DOMAIN r = 1..n
  <2> HIDE DEF f, n, r
  <2>1. r = [m \in 1..n |-> r[m]]
    BY <1>13
  <2> QED BY <1>3, <2>1, ListedFun, <1>13
<1>15. Comes(f, r, s, I, R)
  <2> HIDE DEF f, r, rank
  <2> QED BY <1>3, <1>10, <1>11, <1>12, <1>13, <1>14 DEF Comes
<1> QED BY <1>15

Upwards(I) == {p \in I \X I : p[1] < p[2]}

LEMMA UpwardsIs ==
  ASSUME NEW s, NEW n \in Nat, NEW I \in SUBSET (1..n)
  PROVE  /\ IsFiniteSet(I)
         /\ \E f : Comes(f, Kept!Picked(s, I), s, I, Upwards(I))
<1>1. IsFiniteSet(I)
  <2>1. 1 \in Int /\ n \in Int
    OBVIOUS
  <2>2. IsFiniteSet(1..n)
    BY <2>1, FS_Interval
  <2> QED BY <2>2, FS_Subset
<1>2. Orders(Upwards(I), I)
  <2>1. \A i \in I : i \in Nat
    OBVIOUS
  <2>2. \A i, j \in I : <<i, j>> \in Upwards(I) <=> i < j
    BY DEF Upwards
  <2> QED BY <2>1, <2>2 DEF Orders
<1>3. Kept!Picked(s, I) = Kept!Ranked(s, I, Upwards(I))
  BY Zenon DEF Kept!Picked, Upwards
<1> QED BY <1>1, <1>2, <1>3, RankedIs

LEMMA PickedListed ==
  ASSUME NEW s, NEW n \in Nat, NEW I \in SUBSET (1..n)
  PROVE  Listed(Kept!Picked(s, I))
<1>1. PICK f : Comes(f, Kept!Picked(s, I), s, I, Upwards(I))
  BY UpwardsIs
<1> QED BY <1>1 DEF Comes

-----------------------------------------------------------------------------
(* The pages that the rules of a product find *)

LEMMA SubtreeIs ==
  ASSUME NEW pages, Listed(pages), NEW id
  PROVE  IsFiniteSet(Kept!Subtree(pages, id))
<1> DEFINE n == Len(pages)
           all == {pages[i].id : i \in 1..n}
           D == SUBSET (all \union {id})
           More(above) == above \union {p.id : p \in {p \in Kept!ToSet(pages) : p.par \in above}}
           step == [above \in D |-> More(above)]
           Eq(g) == g = [k \in 0..n |-> IF k = 0 THEN {id} ELSE
                            LET above == g[k - 1]
                            IN above \union {p.id : p \in {p \in Kept!ToSet(pages) : p.par \in above}}]
           r == CHOOSE g : Eq(g)
<1>1. n \in Nat /\ DOMAIN pages = 1..n
  BY ListedIs
<1>2. IsFiniteSet(all \union {id})
  <2> DEFINE f == [i \in 1..n |-> pages[i].id]
  <2>1. f \in Surjection(1..n, all)
    BY DEF Surjection
  <2>2. IsFiniteSet(1..n)
    BY <1>1, FS_Interval
  <2> HIDE DEF f, n, all
  <2>3. IsFiniteSet(all)
    BY <2>1, <2>2, FS_Surjection
  <2> QED BY <2>3, FS_AddElement
<1>3. Kept!Subtree(pages, id) = r[n]
  BY Zenon DEF Kept!Subtree
<1>4. \A above \in D : More(above) \in D
  <2> SUFFICES ASSUME NEW above \in D, NEW p \in Kept!ToSet(pages) PROVE p.id \in all
    OBVIOUS
  <2>1. p \in ToSet(pages)
    BY KeptOperators
  <2>2. \E i \in 1..n : p = pages[i]
    <3> HIDE DEF n
    <3> QED BY <1>1, <2>1, ToSetIs
  <2> QED BY <2>2
<1>5. PICK f : Iterates(f, n, D, {id}, step)
  <2>1. step \in [D -> D] /\ {id} \in D
    <3> HIDE DEF More, n
    <3> QED BY <1>4
  <2> HIDE DEF step, D, n
  <2> QED BY <1>1, <2>1, Recursion
<1>6. f \in [0..n -> D] /\ f[0] = {id} /\ \A k \in 1..n : f[k] = step[f[k - 1]]
  BY <1>5 DEF Iterates
<1>7. \A k \in 1..n : f[k] = More(f[k - 1])
  <2> SUFFICES ASSUME NEW k \in 1..n PROVE f[k] = More(f[k - 1])
    OBVIOUS
  <2>1. f[k - 1] \in D /\ f[k] = step[f[k - 1]]
    <3>1. k - 1 \in 0..n
      BY <1>1
    <3> HIDE DEF step, D, n
    <3> QED BY <1>6, <3>1
  <2> HIDE DEF More, D
  <2> QED BY <2>1
<1>8. Eq(f)
  <2>1. \A k \in 0..n : f[k] = IF k = 0 THEN {id} ELSE More(f[k - 1])
    <3>1. \A k \in 0..n : k # 0 => k \in 1..n
      BY <1>1
    <3> HIDE DEF More, n
    <3> QED BY <1>6, <1>7, <3>1
  <2>2. f = [k \in 0..n |-> f[k]]
    <3> HIDE DEF n, D
    <3> QED BY <1>6
  <2>3. f = [k \in 0..n |-> IF k = 0 THEN {id} ELSE More(f[k - 1])]
    <3> HIDE DEF More, n
    <3> QED BY <2>1, <2>2
  <2> QED BY <2>3
<1>9. Eq(r)
  <2> HIDE DEF Eq
  <2> QED BY <1>8
<1>10. r[n] \in D
  <2> DEFINE T == {k \in 0..n : r[k] \in D}
  <2> HIDE DEF r
  <2>1. r[0] = {id} /\ \A k \in 1..n : r[k] = More(r[k - 1])
    <3>1. 0 \in 0..n /\ \A k \in 1..n : k \in 0..n /\ k # 0
      BY <1>1
    <3> QED BY <1>9, <3>1
  <2>2. 0 \in T
    BY <1>1, <2>1
  <2> HIDE DEF More, D, n
  <2>3. ASSUME NEW k \in 0..n - 1, k \in T PROVE k + 1 \in T
    <3>1. k + 1 \in 0..n /\ k + 1 \in 1..n /\ (k + 1) - 1 = k
      BY <1>1
    <3> QED BY <1>4, <2>1, <2>3, <3>1
  <2>4. 0..n \subseteq T
    <3> HIDE DEF T
    <3> QED BY <1>1, <2>2, <2>3, Induct
  <2> QED BY <1>1, <2>4
<1> HIDE DEF r, n, all
<1> QED BY <1>2, <1>3, <1>10, FS_Subset

LEMMA KidsListed == ASSUME NEW pages, Listed(pages), NEW id PROVE Listed(Kept!Kids(pages, id))
<1>1. Len(pages) \in Nat /\ DOMAIN pages = 1..Len(pages)
  BY ListedIs
<1> DEFINE I == {i \in DOMAIN pages : pages[i].par = id}
<1>2. I \in SUBSET (1..Len(pages))
  BY <1>1
<1>3. Kept!Kids(pages, id) = Kept!Picked(pages, I)
  BY Zenon DEF Kept!Kids
<1> HIDE DEF I
<1> QED BY <1>1, <1>2, <1>3, PickedListed

LEMMA LevelsListed == ASSUME NEW pages, Listed(pages) PROVE Listed(Kept!Levels(pages))
<1> DEFINE ids == {p.id : p \in Kept!ToSet(pages)}
           I == {i \in DOMAIN pages : pages[i].par \notin ids}
           roots == Kept!Picked(pages, I)
           kids == [i \in DOMAIN roots |-> Kept!Kids(pages, roots[i].id)]
           first == Kept!FlattenSeq(kids)
           both == [i \in DOMAIN first |-> <<first[i]>> \o Kept!Kids(pages, first[i].id)]
<1>1. Kept!Levels(pages) = Kept!FlattenSeq(both)
  BY Zenon DEF Kept!Levels
<1>2. Len(pages) \in Nat /\ DOMAIN pages = 1..Len(pages)
  BY ListedIs
<1>3. I \in SUBSET (1..Len(pages))
  BY <1>2
<1>4. Listed(roots)
  <2> HIDE DEF I
  <2> QED BY <1>2, <1>3, PickedListed
<1>5. Listed(kids) /\ \A i \in DOMAIN kids : Listed(kids[i])
  <2> HIDE DEF roots
  <2>1. \A i \in DOMAIN roots : Listed(kids[i])
    BY KidsListed
  <2>2. kids = [i \in DOMAIN roots |-> kids[i]]
    OBVIOUS
  <2> HIDE DEF kids
  <2>3. Listed(kids) /\ DOMAIN kids = DOMAIN roots
    BY <1>4, <2>2, MappedListed
  <2> QED BY <2>1, <2>3
<1>6. Listed(first)
  <2> HIDE DEF kids
  <2> QED BY <1>5, FlattenIs, KeptOperators
<1>7. Listed(both) /\ \A i \in DOMAIN both : Listed(both[i])
  <2> HIDE DEF first
  <2>1. \A i \in DOMAIN first : both[i] = <<first[i]>> \o Kept!Kids(pages, first[i].id)
    OBVIOUS
  <2>2. both = [i \in DOMAIN first |-> both[i]]
    OBVIOUS
  <2> HIDE DEF both
  <2>3. Listed(both) /\ DOMAIN both = DOMAIN first
    BY <1>6, <2>2, MappedListed
  <2>4. ASSUME NEW i \in DOMAIN first PROVE Listed(both[i])
    <3>1. Listed(Kept!Kids(pages, first[i].id))
      BY KidsListed
    <3>2. Listed(<<first[i]>> \o Kept!Kids(pages, first[i].id))
      BY <3>1, OntoOne
    <3> QED BY <2>1, <3>2
  <2> QED BY <2>3, <2>4
<1> HIDE DEF both
<1> QED BY <1>1, <1>7, FlattenIs, KeptOperators

Hits(space) ==
  LET levels == Kept!Levels(space)
      hits   == Kept!Picked(levels, {k \in DOMAIN levels : levels[k].hit})
  IN  [k \in DOMAIN hits |-> [id |-> hits[k].id, pages |-> Kept!Cardinality(Kept!Subtree(space, hits[k].id))]]

LEMMA HitsAre ==
  ASSUME NEW space, Listed(space)
  PROVE  Listed(Hits(space)) /\ \A h \in ToSet(Hits(space)) : h.pages \in Nat
<1> DEFINE levels == Kept!Levels(space)
           I == {k \in DOMAIN levels : levels[k].hit}
           hits == Kept!Picked(levels, I)
           r == [k \in DOMAIN hits |-> [id |-> hits[k].id, pages |-> Kept!Cardinality(Kept!Subtree(space, hits[k].id))]]
<1>1. Hits(space) = r
  BY Zenon DEF Hits
<1>2. Listed(levels)
  BY LevelsListed
<1>3. Len(levels) \in Nat /\ I \in SUBSET (1..Len(levels))
  <2> HIDE DEF levels
  <2>1. Len(levels) \in Nat /\ DOMAIN levels = 1..Len(levels)
    BY <1>2, ListedIs
  <2> QED BY <2>1
<1>4. Listed(hits)
  <2> HIDE DEF levels, I
  <2> QED BY <1>3, PickedListed
<1>5. Listed(r)
  <2> HIDE DEF hits
  <2>1. r = [k \in DOMAIN hits |-> r[k]]
    OBVIOUS
  <2> HIDE DEF r
  <2> QED BY <1>4, <2>1, MappedListed
<1>6. \A k \in DOMAIN hits : r[k].pages \in Nat
  <2> SUFFICES ASSUME NEW k \in DOMAIN hits PROVE r[k].pages \in Nat
    OBVIOUS
  <2>1. r[k].pages = Kept!Cardinality(Kept!Subtree(space, hits[k].id))
    OBVIOUS
  <2>2. Cardinality(Kept!Subtree(space, hits[k].id)) \in Nat
    BY SubtreeIs, FS_CardinalityType
  <2> HIDE DEF r, hits
  <2> QED BY <2>1, <2>2, KeptOperators
<1>7. \A h \in ToSet(r) : h.pages \in Nat
  <2>1. DOMAIN r = DOMAIN hits
    OBVIOUS
  <2> HIDE DEF r, hits
  <2> SUFFICES ASSUME NEW h \in ToSet(r) PROVE h.pages \in Nat
    OBVIOUS
  <2>2. PICK k \in DOMAIN r : h = r[k]
    BY ToSetIs
  <2> QED BY <1>6, <2>1, <2>2
<1> QED BY <1>1, <1>5, <1>7

LEMMA MatchesAre ==
  ASSUME NEW pages \in ToSet(Listings)
  PROVE  /\ Listed(Kept!Matches(pages))
         /\ \A i \in DOMAIN Kept!Matches(pages) : Kept!Matches(pages)[i].pages \in Nat
<1> DEFINE ss == [i \in DOMAIN Spaces |-> Hits(pages[Spaces[i]])]
           found == FlattenSeq(ss)
<1>1. Kept!Matches(pages) = found \o Extra
  <2>1. Kept!Matches(pages) = Kept!FlattenSeq(ss) \o Extra
    BY Zenon DEF Kept!Matches, Hits
  <2>2. Kept!FlattenSeq(ss) = FlattenSeq(ss)
    BY KeptOperators
  <2> QED BY <2>1, <2>2
<1>2. Listed(Spaces) /\ Listed(Extra) /\ \A x \in ToSet(Extra) : x.pages \in Nat
  BY SignalsAssumption DEF Listed
<1>3. \A i \in DOMAIN Spaces : Listed(ss[i]) /\ \A h \in ToSet(ss[i]) : h.pages \in Nat
  <2> SUFFICES ASSUME NEW i \in DOMAIN Spaces PROVE Listed(ss[i]) /\ \A h \in ToSet(ss[i]) : h.pages \in Nat
    OBVIOUS
  <2>1. Spaces[i] \in ToSet(Spaces)
    BY ToSetIs
  <2>2. Listed(pages[Spaces[i]])
    BY <2>1, SignalsAssumption DEF Listed
  <2>3. ss[i] = Hits(pages[Spaces[i]])
    OBVIOUS
  <2> HIDE DEF ss
  <2> QED BY <2>2, <2>3, HitsAre
<1>4. Listed(ss) /\ DOMAIN ss = DOMAIN Spaces
  <2>1. ss = [i \in DOMAIN Spaces |-> ss[i]]
    OBVIOUS
  <2> HIDE DEF ss
  <2> QED BY <1>2, <2>1, MappedListed
<1>5. Listed(found) /\ \A x \in ToSet(found) : \E i \in DOMAIN ss : x \in ToSet(ss[i])
  <2> HIDE DEF ss
  <2> QED BY <1>3, <1>4, FlattenIs
<1> HIDE DEF ss, found
<1>6. Listed(found \o Extra) /\ \A x \in ToSet(found \o Extra) : x.pages \in Nat
  BY <1>2, <1>3, <1>4, <1>5, ConcatIs
<1>7. \A i \in DOMAIN (found \o Extra) : (found \o Extra)[i] \in ToSet(found \o Extra)
  BY ToSetIs
<1> QED BY <1>1, <1>6, <1>7

(* The largest first *)
LEMMA LargestIs ==
  ASSUME NEW all, Listed(all), \A i \in DOMAIN all : all[i].pages \in Nat
  PROVE  LET sorted == Kept!Largest(all) IN
         /\ Listed(sorted) /\ \A m \in DOMAIN sorted : sorted[m].pages \in Nat
         /\ \A i \in DOMAIN all : \E m \in DOMAIN sorted : sorted[m] = all[i]
         /\ \A m \in DOMAIN sorted : \E i \in DOMAIN all : sorted[m] = all[i]
         /\ \A a, b \in DOMAIN sorted : a < b => sorted[a].pages >= sorted[b].pages
<1> DEFINE I == DOMAIN all
           R == {p \in (DOMAIN all) \X (DOMAIN all) : \/ all[p[1]].pages > all[p[2]].pages
                                                      \/ all[p[1]].pages = all[p[2]].pages /\ p[1] < p[2]}
           sorted == Kept!Largest(all)
<1>1. sorted = Kept!Ranked(all, I, R)
  BY Zenon DEF Kept!Largest
<1>2. Len(all) \in Nat /\ I = 1..Len(all)
  BY ListedIs
<1>3. \A i, j \in I : <<i, j>> \in R <=> \/ all[i].pages > all[j].pages
                                         \/ all[i].pages = all[j].pages /\ i < j
  OBVIOUS
<1>4. Orders(R, I)
  <2> HIDE DEF R
  <2>1. \A i \in I : i \in Nat /\ all[i].pages \in Nat
    BY <1>2
  <2> HIDE DEF I
  <2> QED BY <1>3, <2>1 DEF Orders
<1>5. IsFiniteSet(I)
  <2>1. IsFiniteSet(1..Len(all))
    BY <1>2, FS_Interval
  <2> HIDE DEF I
  <2> QED BY <1>2, <2>1
<1>6. PICK f : Comes(f, sorted, all, I, R)
  <2> HIDE DEF I, R, sorted
  <2> QED BY <1>1, <1>4, <1>5, RankedIs
<1> DEFINE n == Cardinality(I)
<1>7. /\ n \in Nat /\ f \in [1..n -> I] /\ \A i \in I : \E m \in 1..n : f[m] = i
      /\ \A a, b \in 1..n : a < b => <<f[a], f[b]>> \in R
      /\ sorted = [m \in 1..n |-> all[f[m]]]
      /\ Listed(sorted) /\ DOMAIN sorted = 1..n
  BY <1>6 DEF Comes
<1> HIDE DEF sorted, R, n
<1>8. \A m \in 1..n : f[m] \in I /\ sorted[m] = all[f[m]] /\ all[f[m]].pages \in Nat
  BY <1>7
<1>9. \A a, b \in 1..n : a < b => sorted[a].pages >= sorted[b].pages
  <2> SUFFICES ASSUME NEW a \in 1..n, NEW b \in 1..n, a < b PROVE sorted[a].pages >= sorted[b].pages
    OBVIOUS
  <2>1. <<f[a], f[b]>> \in R /\ f[a] \in I /\ f[b] \in I
    BY <1>7, <1>8
  <2>2. all[f[a]].pages >= all[f[b]].pages
    <3> HIDE DEF I
    <3> QED BY <1>3, <1>8, <2>1
  <2> QED BY <1>8, <2>2
<1>10. \A m \in 1..n : sorted[m].pages \in Nat /\ \E i \in I : sorted[m] = all[i]
  BY <1>8
<1>11. \A i \in I : \E m \in 1..n : sorted[m] = all[i]
  BY <1>7, <1>8
<1> QED BY <1>7, <1>9, <1>10, <1>11 DEF sorted

(* Each page once *)
Once(sorted, once, g) ==
  /\ Listed(once) /\ Len(once) \in Nat /\ DOMAIN once = 1..Len(once) /\ g \in [1..Len(once) -> DOMAIN sorted]
  /\ \A k \in 1..Len(once) : once[k] = sorted[g[k]]
  /\ \A a, b \in 1..Len(once) : a < b => g[a] < g[b]
  /\ \A a, b \in 1..Len(once) : a # b => once[a].id # once[b].id
  /\ \A m \in DOMAIN sorted : \E k \in 1..Len(once) : g[k] <= m /\ once[k].id = sorted[m].id

LEMMA OnceIs ==
  ASSUME NEW sorted, Listed(sorted)
  PROVE  LET J == {i \in DOMAIN sorted : \A j \in 1..(i - 1) : sorted[j].id # sorted[i].id}
         IN  \E g : Once(sorted, Kept!Picked(sorted, J), g)
<1> DEFINE J == {i \in DOMAIN sorted : \A j \in 1..(i - 1) : sorted[j].id # sorted[i].id}
           once == Kept!Picked(sorted, J)
<1>1. Len(sorted) \in Nat /\ DOMAIN sorted = 1..Len(sorted)
  BY ListedIs
<1>2. J \in SUBSET (1..Len(sorted))
  BY <1>1
<1>3. PICK g : Comes(g, once, sorted, J, Upwards(J))
  <2> HIDE DEF J
  <2> QED BY <1>1, <1>2, UpwardsIs
<1> DEFINE n == Cardinality(J)
<1>4. /\ n \in Nat /\ g \in [1..n -> J] /\ \A i \in J : \E m \in 1..n : g[m] = i
      /\ \A a, b \in 1..n : a < b => <<g[a], g[b]>> \in Upwards(J)
      /\ once = [m \in 1..n |-> sorted[g[m]]]
      /\ Listed(once) /\ Len(once) = n /\ DOMAIN once = 1..n
  BY <1>3 DEF Comes
<1>5. \A m \in J : m \in DOMAIN sorted /\ \A j \in 1..(m - 1) : sorted[j].id # sorted[m].id
  OBVIOUS
<1>6. ASSUME NEW m \in DOMAIN sorted PROVE \E j \in J : j <= m /\ sorted[j].id = sorted[m].id
  <2> DEFINE T == {j \in DOMAIN sorted : sorted[j].id = sorted[m].id}
  <2>1. m \in T /\ T \subseteq Nat
    BY <1>1
  <2>2. PICK j \in T : \A x \in T : j <= x
    <3> HIDE DEF T
    <3> QED BY <2>1, LeastNat
  <2>3. j <= m /\ sorted[j].id = sorted[m].id /\ j \in DOMAIN sorted
    BY <2>1, <2>2
  <2>4. \A i \in 1..(j - 1) : sorted[i].id # sorted[j].id
    <3> SUFFICES ASSUME NEW i \in 1..(j - 1), sorted[i].id = sorted[j].id PROVE FALSE
      OBVIOUS
    <3>1. i \in DOMAIN sorted /\ i < j
      BY <1>1, <2>3
    <3>2. i \in T
      BY <2>3, <3>1
    <3> HIDE DEF T
    <3> QED BY <1>1, <2>2, <2>3, <3>1, <3>2
  <2>5. j \in J
    BY <2>3, <2>4
  <2> HIDE DEF T, J
  <2> QED BY <2>3, <2>5
<1> HIDE DEF J, n, once
<1>7. \A k \in 1..n : g[k] \in J /\ g[k] \in DOMAIN sorted /\ g[k] \in Nat /\ once[k] = sorted[g[k]]
  <2>1. \A k \in 1..n : g[k] \in J /\ once[k] = sorted[g[k]]
    BY <1>4
  <2> QED BY <1>1, <1>5, <2>1
<1>8. \A a, b \in 1..n : a < b => g[a] < g[b]
  BY <1>4 DEF Upwards
<1>9. \A a, b \in 1..n : a < b => once[a].id # once[b].id
  <2> SUFFICES ASSUME NEW a \in 1..n, NEW b \in 1..n, a < b PROVE once[a].id # once[b].id
    OBVIOUS
  <2>1. g[a] \in 1..(g[b] - 1)
    BY <1>1, <1>7, <1>8
  <2> QED BY <1>5, <1>7, <2>1
<1>10. \A a, b \in 1..n : a # b => once[a].id # once[b].id
  <2>1. \A a, b \in 1..n : a # b => a < b \/ b < a
    BY <1>4
  <2> QED BY <1>9, <2>1
<1>11. \A m \in DOMAIN sorted : \E k \in 1..n : g[k] <= m /\ once[k].id = sorted[m].id
  <2> SUFFICES ASSUME NEW m \in DOMAIN sorted PROVE \E k \in 1..n : g[k] <= m /\ once[k].id = sorted[m].id
    OBVIOUS
  <2>1. PICK j \in J : j <= m /\ sorted[j].id = sorted[m].id
    BY <1>6
  <2>2. PICK k \in 1..n : g[k] = j
    BY <1>4
  <2>3. once[k] = sorted[j]
    BY <1>7, <2>2
  <2> QED BY <2>1, <2>2, <2>3
<1>12. g \in [1..n -> DOMAIN sorted]
  BY <1>4, <1>7
<1>13. Once(sorted, once, g)
  BY <1>4, <1>7, <1>8, <1>10, <1>11, <1>12 DEF Once
<1> QED BY <1>13 DEF once, J

LEMMA OneEach ==
  ASSUME NEW s, NEW n \in Nat, DOMAIN s = 1..n, \A a, b \in 1..n : a # b => s[a].id # s[b].id
  PROVE  IsFiniteSet(Kept!Ids(s)) /\ Cardinality(Kept!Ids(s)) = n
<1> DEFINE f == [i \in 1..n |-> s[i].id]
<1>1. f \in Surjection(1..n, Kept!Ids(s)) /\ f \in Injection(1..n, Kept!Ids(s))
  BY DEF Kept!Ids, Surjection, Injection, IsInjective
<1>2. IsFiniteSet(1..n) /\ Cardinality(1..n) = n
  BY FS_Interval
<1> HIDE DEF f
<1> QED BY <1>1, <1>2, FS_Surjection

LEMMA ConfLinksFit ==
  ASSUME NEW pages \in ToSet(Listings)
  PROVE  LET links == Kept!ConfLinks(pages)
             all   == Kept!Matches(pages)
         IN  /\ Cardinality(Kept!Ids(links)) = Len(links)
             /\ Len(links) = Min({MaxLinks, Cardinality(Kept!Ids(all))})
             /\ \A i \in DOMAIN all :
                  all[i].id \notin Kept!Ids(links) => \A k \in DOMAIN links : links[k].pages >= all[i].pages
<1> DEFINE all == Kept!Matches(pages)
           sorted == Kept!Largest(all)
           J == {i \in DOMAIN sorted : \A j \in 1..(i - 1) : sorted[j].id # sorted[i].id}
           once == Kept!Picked(sorted, J)
           top == Min({Len(once), MaxLinks})
           links == SubSeq(once, 1, top)
<1>1. Kept!ConfLinks(pages) = links
  <2>1. Kept!ConfLinks(pages) = SubSeq(once, 1, Kept!Min({Len(once), MaxLinks}))
    BY Zenon DEF Kept!ConfLinks
  <2> QED BY <2>1, KeptOperators
<1>2. Listed(all) /\ \A i \in DOMAIN all : all[i].pages \in Nat
  BY MatchesAre
<1>3. /\ Listed(sorted) /\ \A m \in DOMAIN sorted : sorted[m].pages \in Nat
      /\ \A i \in DOMAIN all : \E m \in DOMAIN sorted : sorted[m] = all[i]
      /\ \A m \in DOMAIN sorted : \E i \in DOMAIN all : sorted[m] = all[i]
      /\ \A a, b \in DOMAIN sorted : a < b => sorted[a].pages >= sorted[b].pages
  <2> HIDE DEF all
  <2> QED BY <1>2, LargestIs
<1>4. PICK g : Once(sorted, once, g)
  <2> HIDE DEF sorted
  <2> QED BY <1>3, OnceIs
<1> HIDE DEF once, sorted, all
<1> DEFINE n == Len(once)
<1>5. /\ Listed(once) /\ n \in Nat /\ DOMAIN once = 1..n /\ g \in [1..n -> DOMAIN sorted]
      /\ \A k \in 1..n : once[k] = sorted[g[k]]
      /\ \A a, b \in 1..n : a < b => g[a] < g[b]
      /\ \A a, b \in 1..n : a # b => once[a].id # once[b].id
      /\ \A m \in DOMAIN sorted : \E k \in 1..n : g[k] <= m /\ once[k].id = sorted[m].id
  BY <1>4 DEF Once
<1>6. MaxLinks \in Nat
  BY SignalsAssumption
<1>7. top \in Nat /\ top <= n /\ top = IF n <= MaxLinks THEN n ELSE MaxLinks
  <2>1. top \in Nat /\ top = IF n <= MaxLinks THEN n ELSE MaxLinks
    BY <1>5, <1>6, LesserIs
  <2> HIDE DEF top, n
  <2> QED BY <1>5, <1>6, <2>1
<1> HIDE DEF n, top
<1>8. Listed(links) /\ Len(links) = top /\ DOMAIN links = 1..top /\ \A k \in 1..top : links[k] = once[k]
  <2>1. Listed(links) /\ Len(links) = top /\ \A k \in 1..top : links[k] = once[k]
    BY <1>5, <1>7, PrefixIs DEF n
  <2> HIDE DEF links
  <2> QED BY <2>1, ListedIs
<1> HIDE DEF links
<1>9. \A k \in 1..top : k \in 1..n
  BY <1>5, <1>7
<1>10. Cardinality(Kept!Ids(links)) = top
  <2>1. \A a, b \in 1..top : a # b => links[a].id # links[b].id
    BY <1>5, <1>8, <1>9
  <2> QED BY <1>7, <1>8, <2>1, OneEach
<1>11. Kept!Ids(all) = Kept!Ids(once)
  <2>1. \A i \in DOMAIN all : \E k \in DOMAIN once : once[k].id = all[i].id
    <3> SUFFICES ASSUME NEW i \in DOMAIN all PROVE \E k \in DOMAIN once : once[k].id = all[i].id
      OBVIOUS
    <3>1. PICK m \in DOMAIN sorted : sorted[m] = all[i]
      BY <1>3
    <3>2. PICK k \in 1..n : once[k].id = sorted[m].id
      BY <1>5
    <3> QED BY <1>5, <3>1, <3>2
  <2>2. \A k \in DOMAIN once : \E i \in DOMAIN all : once[k].id = all[i].id
    <3> SUFFICES ASSUME NEW k \in DOMAIN once PROVE \E i \in DOMAIN all : once[k].id = all[i].id
      OBVIOUS
    <3>1. once[k] = sorted[g[k]] /\ g[k] \in DOMAIN sorted
      BY <1>5
    <3>2. PICK i \in DOMAIN all : sorted[g[k]] = all[i]
      BY <1>3, <3>1
    <3> QED BY <3>1, <3>2
  <2> QED BY <2>1, <2>2 DEF Kept!Ids
<1>12. Cardinality(Kept!Ids(all)) = n
  <2>1. n \in Nat /\ DOMAIN once = 1..n /\ \A a, b \in 1..n : a # b => once[a].id # once[b].id
    BY <1>5
  <2>2. Cardinality(Kept!Ids(once)) = n
    BY ONLY <2>1, OneEach
  <2> QED BY ONLY <1>11, <2>2
<1>13. top = Min({MaxLinks, n})
  <2>1. Min({MaxLinks, n}) = IF MaxLinks <= n THEN MaxLinks ELSE n
    BY <1>5, <1>6, LesserIs
  <2> QED BY <1>5, <1>6, <1>7, <2>1
<1>14. ASSUME NEW i \in DOMAIN all, all[i].id \notin Kept!Ids(links), NEW k \in DOMAIN links
       PROVE  links[k].pages >= all[i].pages
  <2>1. PICK m \in DOMAIN sorted : sorted[m] = all[i]
    BY <1>3
  <2>2. PICK b \in 1..n : g[b] <= m /\ once[b].id = sorted[m].id
    BY <1>5
  <2>3. b \notin 1..top
    <3>1. \A x \in 1..top : once[x].id \in Kept!Ids(links)
      BY <1>8 DEF Kept!Ids
    <3> QED BY <1>14, <2>1, <2>2, <3>1
  <2>4. k \in 1..top /\ k \in 1..n /\ k < b
    BY <1>5, <1>7, <1>8, <1>9, <1>14, <2>3
  <2>5. DOMAIN sorted \subseteq Nat
    BY <1>3, ListedIs
  <2>6. g[k] \in DOMAIN sorted /\ g[b] \in DOMAIN sorted /\ g[k] < g[b]
    BY <1>5, <2>4
  <2>7. g[k] < m
    BY <2>2, <2>5, <2>6
  <2>8. sorted[g[k]].pages >= sorted[m].pages
    BY <1>3, <2>6, <2>7
  <2>9. links[k] = sorted[g[k]]
    BY <1>5, <1>8, <2>4
  <2> QED BY <2>1, <2>8, <2>9
<1> HIDE DEF J
<1>15. DOMAIN links = 1..top /\ Len(links) = top
  BY <1>8
<1> QED BY <1>1, <1>10, <1>12, <1>13, <1>14, <1>15 DEF all

-----------------------------------------------------------------------------
(* What a run reads and what it writes *)

LEMMA KeptGetTree == ASSUME KeptInv, Kept!GetTree PROVE KeptInv'
<1>1. StoredInv' /\ LastKnown' = LastKnown
  BY StoredBeside DEF KeptInv, Kept!GetTree
<1>2. /\ Reads /\ keepMem.sha = 0 /\ keepMem.touched = FALSE /\ keepMem.snap = snap /\ keepMem.facts = LastKnown
      /\ keepMem.files = [p \in {} |-> Kept!None]
  BY DEF KeptInv, RunInv, Kept!GetTree
<1>3. tip \in 1..Len(Versions)
  BY DEF KeptInv, StoredInv
<1>4. UNCHANGED <<tip, snap>>
  BY DEF Kept!GetTree
<1> DEFINE paths == Versions[tip].listed
           todo == SetToSeq(Kept!Wanted(paths))
<1>5. CASE keepMem.snap # Kept!NoRow /\ keepMem.snap.sha = tip
  <2>1. keepPc' = "pages" /\ keepMem' = [keepMem EXCEPT !.touched = TRUE]
    BY <1>5 DEF Kept!GetTree, Kept!Goto
  <2>2. keepMem'.sha = 0 /\ keepMem'.facts = LastKnown /\ snap # Kept!NoRow
    BY <1>2, <1>5, <2>1 DEF Reads
  <2>3. Holds(keepMem)'
    BY <1>1, <1>4, <2>2 DEF Holds
  <2>4. RunInv'
    BY <2>1, <2>3 DEF RunInv
  <2> QED BY <1>1, <2>4 DEF KeptInv
<1>6. CASE ~(keepMem.snap # Kept!NoRow /\ keepMem.snap.sha = tip)
  <2>1. Kept!SetToSeq(Kept!Wanted(paths)) = todo
    BY KeptOperators
  <2>2. keepPc' = "files" /\ keepMem' = [keepMem EXCEPT !.sha = tip, !.paths = paths, !.todo = todo]
    <3>1. /\ keepPc' = "files"
          /\ keepMem' = [keepMem EXCEPT !.sha = tip, !.paths = paths, !.todo = Kept!SetToSeq(Kept!Wanted(paths))]
      BY <1>6 DEF Kept!GetTree, Kept!Goto
    <3> HIDE DEF todo
    <3> QED BY <2>1, <3>1
  <2>3. Listed(todo) /\ ToSet(todo) = Kept!Wanted(paths)
    <3>1. IsFiniteSet(paths)
      BY <1>3, TipIs, SignalsAssumption
    <3>2. Kept!Wanted(paths) \in SUBSET paths
      BY DEF Kept!Wanted
    <3> HIDE DEF paths
    <3>3. IsFiniteSet(Kept!Wanted(paths))
      BY <3>1, <3>2, FS_Subset
    <3> QED BY <3>3, SetToSeqIs
  <2> HIDE DEF todo, paths
  <2>4. /\ keepMem'.sha = tip /\ keepMem'.paths = paths /\ keepMem'.todo = todo
        /\ keepMem'.files = keepMem.files /\ keepMem'.touched = FALSE /\ keepMem'.facts = LastKnown
    BY <1>2, <2>2 DEF Reads
  <2>5. Reads'
    BY <1>2, <2>2 DEF Reads
  <2>6. Gathered(keepMem.files, keepMem.todo)'
    <3>1. DOMAIN keepMem.files = {}
      BY <1>2
    <3>2. keepMem.files = [p \in DOMAIN keepMem.files |-> Tip.says[p]]
      BY <1>2, <3>1
    <3>3. Gathered(keepMem.files, todo)
      BY <2>3, <3>1, <3>2 DEF Gathered, paths, Tip
    <3> QED BY <1>4, <2>4, <3>3 DEF Gathered, Tip
  <2>7. keepMem'.sha \in 1..tip' /\ keepMem'.paths = Versions[keepMem'.sha].listed
    <3>1. tip \in Nat /\ 1 <= tip
      BY <1>3
    <3> QED BY <1>4, <2>4, <3>1 DEF paths
  <2>8. RunInv'
    BY <1>1, <2>2, <2>3, <2>4, <2>5, <2>6, <2>7 DEF RunInv
  <2> QED BY <1>1, <2>8 DEF KeptInv
<1> QED BY <1>5, <1>6

LEMMA KeptGetFiles == ASSUME KeptInv, Kept!GetFiles PROVE KeptInv'
<1>1. StoredInv' /\ LastKnown' = LastKnown
  BY StoredBeside DEF KeptInv, Kept!GetFiles
<1>2. /\ Reads /\ keepMem.sha \in 1..tip /\ keepMem.touched = FALSE /\ keepMem.facts = LastKnown
      /\ keepMem.paths = Versions[keepMem.sha].listed
      /\ Listed(keepMem.todo) /\ ToSet(keepMem.todo) \subseteq Kept!Wanted(keepMem.paths)
      /\ keepMem.sha = tip => Gathered(keepMem.files, keepMem.todo)
  BY DEF KeptInv, RunInv, Kept!GetFiles
<1>3. tip \in 1..Len(Versions) /\ tip' = tip /\ snap' = snap
  BY DEF KeptInv, StoredInv, Kept!GetFiles
<1> DEFINE todo == keepMem.todo
           n == Min({Len(todo), PerQuery})
           ask == SubSeq(todo, 1, n)
           rest == SubSeq(todo, n + 1, Len(todo))
           says == Versions[tip].says
           found == ToSet(ask) \intersect DOMAIN says
           fetched == [p \in DOMAIN keepMem.files \union found |-> IF p \in found THEN says[p] ELSE keepMem.files[p]]
           cut == Versions[keepMem.sha].listed # Versions[keepMem.sha].tree
           facts == Kept!Extract(keepMem.paths, fetched, cut)
<1>4. IF rest # <<>> THEN keepPc' = "files" /\ keepMem' = [keepMem EXCEPT !.files = fetched, !.todo = rest]
      ELSE keepPc' = "pages" /\ keepMem' = [keepMem EXCEPT !.files = fetched, !.todo = rest, !.facts = facts]
  <2>1. Kept!Min({Len(todo), PerQuery}) = n /\ Kept!ToSet(ask) = ToSet(ask)
    BY KeptOperators
  <2> QED BY <2>1 DEF Kept!GetFiles, Kept!Goto
<1>5. Len(todo) \in Nat /\ n \in Nat /\ n <= Len(todo) /\ DOMAIN todo = 1..Len(todo)
  <2>1. Len(todo) \in Nat /\ PerQuery \in Nat /\ DOMAIN todo = 1..Len(todo)
    BY <1>2, ListedIs, SignalsAssumption
  <2>2. n \in Nat /\ n = IF Len(todo) <= PerQuery THEN Len(todo) ELSE PerQuery
    BY <2>1, LesserIs
  <2> HIDE DEF n, todo
  <2>3. n <= Len(todo)
    <3> DEFINE l == Len(todo)
    <3>1. l \in Nat /\ PerQuery \in Nat /\ n = IF l <= PerQuery THEN l ELSE PerQuery
      BY <2>1, <2>2
    <3> HIDE DEF l
    <3>2. n <= l
      BY <3>1
    <3> QED BY <3>2 DEF l
  <2> QED BY ONLY <2>1, <2>2, <2>3
<1>6. /\ Listed(ask) /\ Len(ask) = n /\ (\A i \in 1..n : ask[i] = todo[i]) /\ ToSet(ask) \subseteq ToSet(todo)
      /\ Listed(rest) /\ Len(rest) = Len(todo) - n /\ (\A i \in 1..Len(todo) - n : rest[i] = todo[n + i])
      /\ ToSet(rest) \subseteq ToSet(todo)
  <2> HIDE DEF n
  <2> QED BY <1>2, <1>5, PrefixIs, SuffixIs
<1>7. ToSet(todo) \subseteq ToSet(ask) \union ToSet(rest)
  <2> HIDE DEF n, ask, rest, todo
  <2> SUFFICES ASSUME NEW x \in ToSet(todo) PROVE x \in ToSet(ask) \union ToSet(rest)
    OBVIOUS
  <2>1. PICK i \in 1..Len(todo) : x = todo[i]
    BY <1>5, ToSetIs
  <2>2. DOMAIN ask = 1..n /\ DOMAIN rest = 1..Len(todo) - n
    BY <1>6, ListedIs
  <2>3. CASE i <= n
    <3>1. i \in DOMAIN ask /\ x = ask[i]
      BY <1>5, <1>6, <2>1, <2>2, <2>3
    <3> QED BY <3>1, ToSetIs
  <2>4. CASE ~(i <= n)
    <3>1. i - n \in 1..Len(todo) - n /\ n + (i - n) = i
      BY <1>5, <2>4
    <3>2. i - n \in DOMAIN rest /\ x = rest[i - n]
      BY <1>6, <2>1, <2>2, <3>1
    <3> QED BY <3>2, ToSetIs
  <2> QED BY <2>3, <2>4
<1>8. ASSUME keepMem.sha = tip PROVE Gathered(fetched, rest)
  <2>1. Gathered(keepMem.files, todo) /\ keepMem.paths = Tip.listed
    BY <1>2, <1>8 DEF Tip
  <2> DEFINE asks == Kept!Wanted(Tip.listed) \intersect DOMAIN Tip.says
  <2>2. /\ keepMem.files = [p \in DOMAIN keepMem.files |-> Tip.says[p]] /\ DOMAIN keepMem.files \subseteq asks
        /\ asks \subseteq DOMAIN keepMem.files \union ToSet(todo)
    BY <2>1 DEF Gathered
  <2>3. says = Tip.says
    BY DEF Tip
  <2>4. found \subseteq asks
    <3>1. ToSet(ask) \subseteq Kept!Wanted(Tip.listed)
      BY <1>2, <1>6, <2>1
    <3> HIDE DEF ask, says
    <3> QED BY <2>3, <3>1
  <2> HIDE DEF ask, rest, todo, says
  <2>5. DOMAIN fetched = DOMAIN keepMem.files \union found
    OBVIOUS
  <2>6. \A p \in DOMAIN fetched : fetched[p] = Tip.says[p]
    <3>1. \A p \in DOMAIN keepMem.files : keepMem.files[p] = Tip.says[p]
      BY <2>2
    <3> HIDE DEF found
    <3> QED BY <2>3, <3>1
  <2>7. fetched = [p \in DOMAIN fetched |-> fetched[p]]
    <3> HIDE DEF found
    <3> QED OBVIOUS
  <2>8. asks \subseteq DOMAIN fetched \union ToSet(rest)
    <3> SUFFICES ASSUME NEW p \in asks, p \notin ToSet(rest), p \notin DOMAIN keepMem.files PROVE p \in found
      <4> HIDE DEF found, asks, fetched
      <4> QED BY <2>5
    <3>1. p \in ToSet(todo)
      BY <2>2
    <3>2. p \in ToSet(ask)
      BY <1>7, <3>1
    <3> QED BY <2>3, <3>2
  <2> HIDE DEF fetched, found
  <2>9. fetched = [p \in DOMAIN fetched |-> Tip.says[p]]
    BY <2>6, <2>7
  <2>10. DOMAIN fetched \subseteq asks
    BY <2>2, <2>4, <2>5
  <2> QED BY <2>8, <2>9, <2>10 DEF Gathered
<1> HIDE DEF fetched, n, ask, says, found
<1>9. CASE rest # <<>>
  <2>1. keepPc' = "files" /\ keepMem' = [keepMem EXCEPT !.files = fetched, !.todo = rest]
    BY <1>4, <1>9
  <2> HIDE DEF rest
  <2>2. /\ keepMem'.files = fetched /\ keepMem'.todo = rest /\ keepMem'.sha = keepMem.sha /\ keepMem'.paths = keepMem.paths
        /\ keepMem'.touched = FALSE /\ keepMem'.facts = LastKnown
    BY <1>2, <2>1 DEF Reads
  <2>3. Reads'
    BY <1>2, <2>1 DEF Reads
  <2>4. Listed(keepMem'.todo) /\ ToSet(keepMem'.todo) \subseteq Kept!Wanted(keepMem'.paths)
    BY <1>2, <1>6, <2>2
  <2>5. (keepMem.sha = tip => Gathered(keepMem.files, keepMem.todo))'
    BY <1>3, <1>8, <2>2 DEF Gathered, Tip
  <2>6. RunInv'
    BY <1>1, <1>2, <1>3, <2>1, <2>2, <2>3, <2>4, <2>5 DEF RunInv
  <2> QED BY <1>1, <2>6 DEF KeptInv
<1>10. CASE rest = <<>>
  <2>1. keepPc' = "pages" /\ keepMem' = [keepMem EXCEPT !.files = fetched, !.todo = rest, !.facts = facts]
    BY <1>4, <1>10
  <2>2. ToSet(rest) = {}
    <3>1. Len(rest) = 0 /\ DOMAIN rest = 1..Len(rest)
      BY <1>6, <1>10, ListedIs
    <3> DEFINE l == Len(rest)
    <3>2. 1..l = {}
      <4>1. l = 0
        BY <3>1
      <4> HIDE DEF l
      <4> QED BY <4>1
    <3>3. DOMAIN rest = {}
      BY ONLY <3>1, <3>2
    <3> QED BY <3>3, ToSetIs
  <2>3. Exact(keepMem.sha, facts)
    <3> SUFFICES ASSUME keepMem.sha = tip, Tip.listed = Tip.tree PROVE facts = WholeFacts
      BY DEF Exact
    <3>1. Gathered(fetched, rest)
      BY <1>8
    <3>2. /\ DOMAIN fetched = Kept!Wanted(Tip.tree) \intersect DOMAIN Tip.says
          /\ \A p \in DOMAIN fetched : fetched[p] = Tip.says[p]
      BY <2>2, <3>1 DEF Gathered
    <3>3. Tip \in ToSet(Versions)
      BY <1>3, TipIs DEF Tip
    <3>4. Kept!Extract(Tip.tree, fetched, FALSE) = WholeFacts
      BY <3>2, <3>3, FilesSay DEF WholeFacts
    <3>5. cut = FALSE /\ keepMem.paths = Tip.tree
      BY <1>2 DEF Tip
    <3> HIDE DEF cut
    <3> QED BY <3>4, <3>5
  <2> HIDE DEF rest, facts
  <2>4. keepMem'.sha = keepMem.sha /\ keepMem'.touched = FALSE /\ keepMem'.facts = facts
    BY <1>2, <2>1 DEF Reads
  <2>5. keepMem.sha # 0
    BY <1>2
  <2>6. Holds(keepMem)'
    BY <1>2, <1>3, <2>3, <2>4, <2>5 DEF Holds, Exact, Tip, WholeFacts
  <2>7. RunInv'
    BY <2>1, <2>6 DEF RunInv
  <2> QED BY <1>1, <2>7 DEF KeptInv
<1> QED BY <1>9, <1>10

LEMMA FactsAre ==
  ASSUME NEW paths, NEW files
  PROVE  Kept!Extract(paths, files, FALSE) # Kept!NoFacts /\ Kept!Extract(paths, files, FALSE).truncated = FALSE
<1>1. "ns" \in DOMAIN Kept!Extract(paths, files, FALSE) /\ Kept!Extract(paths, files, FALSE).truncated = FALSE
  BY DEF Kept!Extract
<1>2. DOMAIN Kept!NoFacts = {"facts"}
  BY DEF Kept!NoFacts
<1>3. "ns" \notin {"facts"}
  OBVIOUS
<1> HIDE DEF Kept!NoFacts
<1> QED BY <1>1, <1>2, <1>3

LEMMA KeptCommit ==
  ASSUME KeptInv, Kept!Commit
  PROVE  /\ KeptInv' /\ Kept!Current(snap', comp', qa', readme') /\ Kept!LinksFit(rule')
         /\ qa # Kept!NoRow /\ qa' # qa => ~keepMem.facts.truncated /\ qa'.manual = qa.manual
<1> DEFINE m == keepMem
           seen == m.node # Kept!NoRow /\ m.facts # Kept!NoFacts
           counted == seen /\ ~m.facts.truncated
<1>1. /\ keepPc = "commit" /\ keepPc' = "done" /\ UNCHANGED <<tip, listing, keepMem, req>>
      /\ comp' = IF seen THEN [comp EXCEPT !.attrs = Kept!Attrs(m.facts)] ELSE comp
      /\ qa' = IF ~counted THEN qa
               ELSE [observed |-> Kept!Observed(m.facts), manual |-> IF qa = Kept!NoRow THEN Kept!None ELSE qa.manual]
      /\ readme' = IF counted THEN m.facts.links ELSE readme
      /\ rule' = IF m.pages # 0 THEN Kept!ConfLinks(Listings[m.pages]) ELSE rule
  BY DEF Kept!Commit, Kept!ProductDocs
<1>2. /\ Holds(m) /\ (m.node # Kept!NoRow => comp # Kept!NoRow)
      /\ m.pages # 0 => m.pages \in 1..Len(Listings)
  BY <1>1 DEF KeptInv, RunInv
<1>14. /\ m.sha # 0 => snap' = [sha |-> m.sha, facts |-> m.facts, at |-> m.at]
       /\ m.sha = 0 /\ m.touched => snap' = [snap EXCEPT !.at = m.at]
       /\ m.sha = 0 /\ ~m.touched => snap' = snap
  <2>1. snap' = CASE m.sha # 0 -> [sha |-> m.sha, facts |-> m.facts, at |-> m.at]
                  [] m.touched -> [snap EXCEPT !.at = m.at]
                  [] OTHER -> snap
    BY DEF Kept!Commit
  <2>2. m.touched => m.sha = 0
    BY <1>2 DEF Holds
  <2> HIDE DEF m
  <2> QED BY ONLY <2>1, <2>2
<1>3. /\ tip \in 1..Len(Versions) /\ listing \in 1..Len(Listings)
      /\ snap # Kept!NoRow => /\ snap = [sha |-> snap.sha, facts |-> snap.facts, at |-> snap.at]
                              /\ snap.sha \in 1..tip /\ Exact(snap.sha, snap.facts)
      /\ comp # Kept!NoRow => comp = [ctype |-> comp.ctype, parent |-> comp.parent, attrs |-> comp.attrs]
      /\ qa # Kept!NoRow => comp # Kept!NoRow /\ qa = [observed |-> qa.observed, manual |-> qa.manual]
      /\ req # Kept!NoRow => comp # Kept!NoRow /\ (req.row # Kept!NoRow => qa # Kept!NoRow)
      /\ Cardinality(Kept!Ids(rule)) = Len(rule)
  BY DEF KeptInv, StoredInv
<1> HIDE DEF m, seen, counted
(* The snapshot *)
<1>4. snap' # Kept!NoRow =>
        /\ snap' = [sha |-> snap'.sha, facts |-> snap'.facts, at |-> snap'.at]
        /\ snap'.sha \in 1..tip /\ Exact(snap'.sha, snap'.facts) /\ snap'.facts = m.facts
  <2>1. CASE m.sha # 0
    <3>1. snap' = [sha |-> m.sha, facts |-> m.facts, at |-> m.at]
      BY <1>14, <2>1
    <3>2. snap'.sha = m.sha /\ snap'.facts = m.facts /\ snap'.at = m.at
      BY <3>1
    <3> QED BY <1>2, <2>1, <3>1, <3>2 DEF Holds
  <2>2. CASE m.sha = 0 /\ m.touched
    <3>1. snap' = [snap EXCEPT !.at = m.at] /\ snap # Kept!NoRow /\ m.facts = LastKnown
      BY <1>14, <1>2, <2>2 DEF Holds
    <3>2. m.facts = snap.facts
      BY <3>1 DEF LastKnown, Kept!LastFacts
    <3>3. snap' = [sha |-> snap.sha, facts |-> snap.facts, at |-> m.at]
      BY <1>3, <3>1
    <3>4. snap'.sha = snap.sha /\ snap'.facts = snap.facts /\ snap'.at = m.at
      BY <3>3
    <3> QED BY <1>3, <3>1, <3>2, <3>3, <3>4
  <2>3. CASE m.sha = 0 /\ ~m.touched
    <3>1. snap' = snap /\ m.facts = LastKnown
      BY <1>14, <1>2, <2>3 DEF Holds
    <3>2. snap # Kept!NoRow => m.facts = snap.facts
      BY <3>1 DEF LastKnown, Kept!LastFacts
    <3> QED BY <1>3, <3>1, <3>2
  <2> QED BY <2>1, <2>2, <2>3
(* The rows *)
<1>5. comp # Kept!NoRow =>
        /\ comp' # Kept!NoRow /\ comp' = [ctype |-> comp'.ctype, parent |-> comp'.parent, attrs |-> comp'.attrs]
        /\ seen => comp'.attrs = Kept!Attrs(m.facts)
  <2> SUFFICES ASSUME comp # Kept!NoRow
               PROVE  /\ comp' # Kept!NoRow /\ comp' = [ctype |-> comp'.ctype, parent |-> comp'.parent, attrs |-> comp'.attrs]
                      /\ seen => comp'.attrs = Kept!Attrs(m.facts)
    OBVIOUS
  <2>1. CASE seen
    <3>1. comp' = [ctype |-> comp.ctype, parent |-> comp.parent, attrs |-> Kept!Attrs(m.facts)]
      BY <1>1, <1>3, <2>1
    <3>2. comp'.ctype = comp.ctype /\ comp'.parent = comp.parent /\ comp'.attrs = Kept!Attrs(m.facts)
      BY <3>1
    <3> QED BY <3>1, <3>2, RowsAre
  <2>2. CASE ~seen
    BY <1>1, <1>3, <2>2
  <2> QED BY <2>1, <2>2
<1>6. comp = Kept!NoRow => comp' = comp /\ qa' = qa
  BY <1>1, <1>2 DEF seen, counted
<1>7. /\ counted => /\ qa' = [observed |-> qa'.observed, manual |-> qa'.manual] /\ qa' # Kept!NoRow
                    /\ qa'.observed = Kept!Observed(m.facts)
                    /\ qa # Kept!NoRow => qa'.manual = qa.manual
      /\ ~counted => qa' = qa
  <2>1. CASE counted
    <3>1. qa' = [observed |-> Kept!Observed(m.facts), manual |-> IF qa = Kept!NoRow THEN Kept!None ELSE qa.manual]
      BY <1>1, <2>1
    <3>2. qa'.observed = Kept!Observed(m.facts) /\ qa'.manual = IF qa = Kept!NoRow THEN Kept!None ELSE qa.manual
      BY <3>1
    <3> QED BY <2>1, <3>1, <3>2, RowsAre
  <2>2. CASE ~counted
    BY <1>1, <2>2
  <2> QED BY <2>1, <2>2
(* The links *)
<1>8. /\ Cardinality(Kept!Ids(rule')) = Len(rule')
      /\ m.pages # 0 =>
           LET all == Kept!Matches(Listings[m.pages]) IN
           /\ Len(rule') = Min({MaxLinks, Cardinality(Kept!Ids(all))})
           /\ \A i \in DOMAIN all :
                all[i].id \notin Kept!Ids(rule') => \A k \in DOMAIN rule' : rule'[k].pages >= all[i].pages
  <2>1. CASE m.pages = 0
    BY <1>1, <1>3, <2>1
  <2>2. CASE m.pages # 0
    <3>1. Listings[m.pages] \in ToSet(Listings)
      BY <1>2, <2>2, SignalsAssumption, ElementOfSeq
    <3>2. rule' = Kept!ConfLinks(Listings[m.pages])
      BY <1>1, <2>2
    <3> QED BY <3>1, <3>2, ConfLinksFit
  <2> QED BY <2>1, <2>2
<1>9. Kept!LinksFit(rule')
  <2>1. \A S : Kept!Min(S) = Min(S) /\ Kept!Cardinality(S) = Cardinality(S)
    BY KeptOperators
  <2> QED BY <1>8, <2>1 DEF Kept!LinksFit, m
(* What it leaves *)
<1>10. Kept!Current(snap', comp', qa', readme')
  <2> SUFFICES ASSUME snap' # Kept!NoRow, snap'.sha = tip, m.node # Kept!NoRow, Tip.listed = Tip.tree
               PROVE  /\ comp'.attrs = Kept!Attrs(WholeFacts) /\ qa'.observed = Kept!Observed(WholeFacts)
                      /\ readme' = WholeFacts.links
    BY DEF Kept!Current, Tip, WholeFacts, m
  <2>1. m.facts = WholeFacts
    BY <1>4 DEF Exact
  <2>2. m.facts # Kept!NoFacts /\ m.facts.truncated = FALSE
    <3>1. WholeFacts # Kept!NoFacts /\ WholeFacts.truncated = FALSE
      BY FactsAre DEF WholeFacts
    <3> QED BY <2>1, <3>1
  <2>3. seen /\ counted
    BY <2>2 DEF seen, counted
  <2>4. comp # Kept!NoRow
    BY <1>2
  <2> QED BY <1>1, <1>5, <1>7, <2>1, <2>3, <2>4
<1>11. StoredInv'
  <2>1. (snap # Kept!NoRow => /\ snap = [sha |-> snap.sha, facts |-> snap.facts, at |-> snap.at]
                              /\ snap.sha \in 1..tip /\ Exact(snap.sha, snap.facts))'
    BY <1>1, <1>4 DEF Exact, Tip, WholeFacts
  <2>2. (comp # Kept!NoRow => comp = [ctype |-> comp.ctype, parent |-> comp.parent, attrs |-> comp.attrs])'
    BY <1>5, <1>6
  <2>3. (qa # Kept!NoRow => comp # Kept!NoRow /\ qa = [observed |-> qa.observed, manual |-> qa.manual])'
    BY <1>3, <1>5, <1>6, <1>7
  <2>4. (req # Kept!NoRow => comp # Kept!NoRow /\ (req.row # Kept!NoRow => qa # Kept!NoRow))'
    BY <1>1, <1>3, <1>5, <1>7
  <2>5. (Cardinality(Kept!Ids(rule)) = Len(rule))'
    BY <1>8 DEF Kept!Ids
  <2>6. (tip \in 1..Len(Versions) /\ listing \in 1..Len(Listings))'
    BY <1>1, <1>3
  <2> QED BY ONLY <2>1, <2>2, <2>3, <2>4, <2>5, <2>6 DEF StoredInv
<1>12. RunInv'
  BY <1>1 DEF RunInv
<1>13. qa # Kept!NoRow /\ qa' # qa => ~m.facts.truncated /\ qa'.manual = qa.manual
  BY <1>7 DEF counted
<1> QED BY <1>9, <1>10, <1>11, <1>12, <1>13 DEF KeptInv, m

Keeps ==
  /\ keepPc = "commit" /\ keepPc' = "done" => Kept!Current(snap', comp', qa', readme') /\ Kept!LinksFit(rule')
  /\ Kept!OwnerWrites

LEMMA KeptStep == KeptInv /\ [Kept!Next]_(Kept!vars) => KeptInv' /\ [Keeps]_(Kept!vars)
<1> SUFFICES ASSUME KeptInv, [Kept!Next]_(Kept!vars) PROVE KeptInv' /\ [Keeps]_(Kept!vars)
  OBVIOUS
<1>1. ASSUME keepPc' # "done" \/ keepPc # "commit", qa' = qa PROVE Keeps
  BY <1>1 DEF Keeps, Kept!OwnerWrites
<1>2. CASE Kept!Push
  BY <1>1, <1>2, KeptPush DEF Kept!Push
<1>3. CASE Kept!MovePages
  BY <1>1, <1>3, KeptMovePages DEF Kept!MovePages
<1>4. CASE Kept!Approve
  <2>1. keepPc' = keepPc /\ KeptInv' /\ qa = Kept!NoRow
    BY <1>4, KeptApprove DEF Kept!Approve
  <2> QED BY <2>1 DEF Keeps, Kept!OwnerWrites
<1>5. CASE Kept!CommitQa
  <2>1. /\ keepPc' = keepPc /\ KeptInv' /\ req # Kept!NoRow /\ req' = Kept!NoRow
        /\ qa # Kept!NoRow /\ qa' # qa => qa' = [observed |-> qa.observed, manual |-> req.value]
    BY <1>5, KeptCommitQa DEF Kept!CommitQa
  <2> QED BY <2>1 DEF Keeps, Kept!OwnerWrites
<1>6. ASSUME NEW v \in Values, Kept!UpdateQa(v) PROVE KeptInv' /\ [Keeps]_(Kept!vars)
  BY <1>1, <1>6, KeptUpdateQa DEF Kept!UpdateQa
<1>7. CASE Kept!Census
  BY <1>1, <1>7, KeptCensus DEF Kept!Census, Kept!Goto
<1>8. CASE Kept!SourceError
  BY <1>1, <1>8, KeptSourceError DEF Kept!SourceError, Kept!Goto
<1>9. CASE Kept!GetTree
  BY <1>1, <1>9, KeptGetTree DEF Kept!GetTree, Kept!Goto
<1>10. CASE Kept!GetFiles
  BY <1>1, <1>10, KeptGetFiles DEF Kept!GetFiles, Kept!Goto
<1>11. CASE Kept!ReadRows
  BY <1>1, <1>11, KeptReadRows DEF Kept!ReadRows, Kept!Goto
<1>12. CASE Kept!Commit
  <2>1. keepPc = "commit" /\ keepPc' = "done"
    BY <1>12 DEF Kept!Commit
  <2> QED BY <1>12, <2>1, KeptCommit DEF Keeps, Kept!OwnerWrites
<1>13. CASE Kept!End
  BY <1>1, <1>13, KeptEnd DEF Kept!End, Kept!Goto
<1>14. CASE UNCHANGED Kept!vars
  <2>1. UNCHANGED <<tip, listing, snap, comp, qa, req, rule, keepPc, keepMem>>
    BY <1>14 DEF Kept!vars
  <2>2. StoredInv' /\ RunInv'
    BY <2>1, StoredBeside, RunBeside DEF KeptInv
  <2> QED BY <1>14, <2>2 DEF KeptInv
<1> QED BY <1>2, <1>3, <1>4, <1>5, <1>6, <1>7, <1>8, <1>9, <1>10, <1>11, <1>12, <1>13, <1>14 DEF Kept!Next

(* SignalsKept (EaSignals): when a run ends and its snapshot is of the tip *)
(* of the branch, the component shows what the whole of that commit says;  *)
(* the links of a product are distinct pages and the largest ones that its *)
(* rules find; and runs and people, however their transactions overlap,    *)
(* change only their own columns of ea_qa_signals (sync/engine.py,         *)
(* sync/derive.py, ea/edit.py): for any commits, files, spaces and rules.  *)
THEOREM SignalsAreKept == MapSpec => SignalsKept
<1>1. Kept!Init /\ [][Kept!Next]_(Kept!vars) => [][Keeps]_(Kept!vars)
  BY KeptStart, KeptStep, PTL
<1> QED BY <1>1, PartSignals, PTL DEF SignalsKept, Kept!SignalsKept, Keeps
=============================================================================
