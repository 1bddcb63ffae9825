-------------------------- MODULE KeyRing_proofs ---------------------------
(***************************************************************************)
(* Proofs about KeyRing. A command is a plan of steps; the first lemmas    *)
(* spell the plans out, so that the invariants can speak of single writes. *)
(* The inductive invariant follows the four certificate files through      *)
(* init, add, rotation and retirement, with an interruption possible after *)
(* every write.                                                            *)
(***************************************************************************)
EXTENDS KeyRing, TLAPS, SequenceTheorems

(* The numbers of credentials, and the two values that are none.           *)
LEMMA NumberFacts ==
    /\ Number \subseteq Nat /\ Empty \in Number /\ 1 \in Number /\ Absent \notin Number
    /\ Absent # Empty
    BY KeyRingAssumption DEF Number, Empty, Absent

(* The files of the secrets folder; the certificate is not one of the      *)
(* other credentials.                                                      *)
LEMMA Names ==
    /\ DP_SECRETS \subseteq SECRET_FILE_NAMES
    /\ DP_LOGICAL \notin Logicals
    /\ "migrator_db" \in Logicals => {"dbPw", "dbConn"} \subseteq SECRET_FILE_NAMES
    /\ "redis" \in Logicals => {"redisAcl", "redisConn"} \subseteq SECRET_FILE_NAMES
    /\ "keycloak_bootstrap" \in Logicals => "bootstrap" \in SECRET_FILE_NAMES
<1>1. DP_SECRETS \subseteq SECRET_FILE_NAMES
  BY DEF SECRET_FILE_NAMES
<1>2. DP_LOGICAL \notin Logicals
  BY KeyRingAssumption DEF DP_LOGICAL, AllLogicals
<1>3. \A l \in Logicals : Range2(FilesOf(l)) \subseteq SECRET_FILE_NAMES
  BY DEF SECRET_FILE_NAMES
<1>4. /\ {"dbPw", "dbConn"} \subseteq Range2(FilesOf("migrator_db"))
      /\ {"redisAcl", "redisConn"} \subseteq Range2(FilesOf("redis"))
      /\ "bootstrap" \in Range2(FilesOf("keycloak_bootstrap"))
  <2>1. FilesOf("migrator_db") = <<"dbPw", "dbConn">>
    BY DEF FilesOf
  <2>2. FilesOf("redis") = <<"redisAcl", "redisConn">>
    BY DEF FilesOf
  <2>3. FilesOf("keycloak_bootstrap") = <<"bootstrap">>
    BY DEF FilesOf
  <2>4. {"dbPw", "dbConn"} \subseteq Range2(<<"dbPw", "dbConn">>)
    BY DEF Range2
  <2>5. {"redisAcl", "redisConn"} \subseteq Range2(<<"redisAcl", "redisConn">>)
    BY DEF Range2
  <2>6. "bootstrap" \in Range2(<<"bootstrap">>)
    BY DEF Range2
  <2> QED
    BY <2>1, <2>2, <2>3, <2>4, <2>5, <2>6
<1> QED
  BY <1>1, <1>2, <1>3, <1>4

(* The writes of one credential, spelled out.                              *)
LEMMA FilesFor ==
    ASSUME NEW n
    PROVE  /\ files_for(DP_LOGICAL, n) = <<Write("cert", n), Write("certPw", n),
                                           Write("prev", Empty), Write("prevPw", Empty)>>
           /\ files_for("migrator_db", n) = <<Write("dbPw", n), Write("dbConn", n)>>
           /\ files_for("redis", n) = <<Write("redisAcl", n), Write("redisConn", n)>>
           /\ files_for("keycloak_bootstrap", n) = <<Write("bootstrap", n)>>
<1>1. files_for(DP_LOGICAL, n) = <<Write("cert", n), Write("certPw", n),
                                   Write("prev", Empty), Write("prevPw", Empty)>>
  BY DEF files_for
<1>2. files_for("migrator_db", n) = <<Write("dbPw", n), Write("dbConn", n)>>
  BY DEF files_for, FilesOf, DP_LOGICAL
<1>3. files_for("redis", n) = <<Write("redisAcl", n), Write("redisConn", n)>>
  BY DEF files_for, FilesOf, DP_LOGICAL
<1>4. files_for("keycloak_bootstrap", n) = <<Write("bootstrap", n)>>
  BY DEF files_for, FilesOf, DP_LOGICAL
<1> QED
  BY <1>1, <1>2, <1>3, <1>4

(* Sequences of up to two elements.                                        *)
LEMMA ShortSeqs ==
    ASSUME NEW S, NEW a \in S, NEW b \in S
    PROVE  <<>> \in Seq(S) /\ <<a>> \in Seq(S) /\ <<a, b>> \in Seq(S)
    OBVIOUS

(* The writes to files of S.                                               *)
StepsOf(S) == [op : {"write"}, name : S, val : Number]

(* `secrets init` only writes; the certificate gets its new number, the    *)
(* previous pair is empty, and its password is the last file of all.       *)
LEMMA InitPlanFacts ==
    ASSUME gen \in [Logicals \cup {DP_LOGICAL} -> Number]
    PROVE  /\ Len(InitPlan) \in Nat \ {0}
           /\ \A i \in 1 .. Len(InitPlan) :
                /\ InitPlan[i].op = "write"
                /\ InitPlan[i].name \in SECRET_FILE_NAMES /\ InitPlan[i].val \in Number
                /\ InitPlan[i].name \in {"cert", "certPw"} => InitPlan[i].val = gen[DP_LOGICAL]
                /\ InitPlan[i].name \in {"prev", "prevPw"} => InitPlan[i].val = Empty
                /\ InitPlan[i].name = "prevPw" => i = Len(InitPlan)
<1> DEFINE Other == SECRET_FILE_NAMES \ DP_SECRETS
           Db == IF "migrator_db" \in Logicals THEN files_for("migrator_db", gen["migrator_db"]) ELSE <<>>
           Boot == IF "keycloak_bootstrap" \in Logicals
                   THEN files_for("keycloak_bootstrap", gen["keycloak_bootstrap"]) ELSE <<>>
           Redis == IF "redis" \in Logicals THEN files_for("redis", gen["redis"]) ELSE <<>>
           Dp == files_for(DP_LOGICAL, gen[DP_LOGICAL])
           A == Db \o Boot \o Redis
<1>1. InitPlan = A \o Dp
  BY DEF InitPlan
<1>2. \A l \in Logicals \cup {DP_LOGICAL} : gen[l] \in Number
  OBVIOUS
<1>3. Db \in Seq(StepsOf(Other))
  <2>1. CASE "migrator_db" \in Logicals
    <3>1. Db = <<Write("dbPw", gen["migrator_db"]), Write("dbConn", gen["migrator_db"])>>
      BY <2>1, FilesFor
    <3>2. /\ Write("dbPw", gen["migrator_db"]) \in StepsOf(Other)
          /\ Write("dbConn", gen["migrator_db"]) \in StepsOf(Other)
      BY <2>1, <1>2, Names DEF StepsOf, Write, DP_SECRETS
    <3> HIDE DEF Db
    <3> QED
      BY <3>1, <3>2, ShortSeqs
  <2>2. CASE "migrator_db" \notin Logicals
    <3>1. Db = <<>>
      BY <2>2
    <3> HIDE DEF Db
    <3> QED
      BY <3>1, EmptySeq
  <2> QED
    BY <2>1, <2>2
<1>4. Boot \in Seq(StepsOf(Other))
  <2>1. CASE "keycloak_bootstrap" \in Logicals
    <3>1. Boot = <<Write("bootstrap", gen["keycloak_bootstrap"])>>
      BY <2>1, FilesFor
    <3>2. Write("bootstrap", gen["keycloak_bootstrap"]) \in StepsOf(Other)
      BY <2>1, <1>2, Names DEF StepsOf, Write, DP_SECRETS
    <3> HIDE DEF Boot
    <3> QED
      BY <3>1, <3>2, ShortSeqs
  <2>2. CASE "keycloak_bootstrap" \notin Logicals
    <3>1. Boot = <<>>
      BY <2>2
    <3> HIDE DEF Boot
    <3> QED
      BY <3>1, EmptySeq
  <2> QED
    BY <2>1, <2>2
<1>5. Redis \in Seq(StepsOf(Other))
  <2>1. CASE "redis" \in Logicals
    <3>1. Redis = <<Write("redisAcl", gen["redis"]), Write("redisConn", gen["redis"])>>
      BY <2>1, FilesFor
    <3>2. /\ Write("redisAcl", gen["redis"]) \in StepsOf(Other)
          /\ Write("redisConn", gen["redis"]) \in StepsOf(Other)
      BY <2>1, <1>2, Names DEF StepsOf, Write, DP_SECRETS
    <3> HIDE DEF Redis
    <3> QED
      BY <3>1, <3>2, ShortSeqs
  <2>2. CASE "redis" \notin Logicals
    <3>1. Redis = <<>>
      BY <2>2
    <3> HIDE DEF Redis
    <3> QED
      BY <3>1, EmptySeq
  <2> QED
    BY <2>1, <2>2
<1>6. /\ Dp \in Seq(StepsOf(SECRET_FILE_NAMES)) /\ Len(Dp) = 4
      /\ Dp[1] = Write("cert", gen[DP_LOGICAL]) /\ Dp[2] = Write("certPw", gen[DP_LOGICAL])
      /\ Dp[3] = Write("prev", Empty) /\ Dp[4] = Write("prevPw", Empty)
  <2>1. Dp = <<Write("cert", gen[DP_LOGICAL]), Write("certPw", gen[DP_LOGICAL]),
               Write("prev", Empty), Write("prevPw", Empty)>>
    BY FilesFor
  <2>2. /\ Write("cert", gen[DP_LOGICAL]) \in StepsOf(SECRET_FILE_NAMES)
        /\ Write("certPw", gen[DP_LOGICAL]) \in StepsOf(SECRET_FILE_NAMES)
        /\ Write("prev", Empty) \in StepsOf(SECRET_FILE_NAMES)
        /\ Write("prevPw", Empty) \in StepsOf(SECRET_FILE_NAMES)
    BY <1>2, Names, NumberFacts DEF Write, StepsOf, DP_SECRETS
  <2> HIDE DEF Dp
  <2> QED
    BY <2>1, <2>2
<1> HIDE DEF Db, Boot, Redis, Dp
<1>7. Db \o Boot \in Seq(StepsOf(Other))
  BY <1>3, <1>4, ConcatProperties
<1>8. A \in Seq(StepsOf(Other))
  BY <1>5, <1>7, ConcatProperties
<1> HIDE DEF A
<1>9. /\ Len(A) \in Nat /\ \A i \in 1 .. Len(A) : A[i] \in StepsOf(Other)
      /\ A \in Seq(StepsOf(SECRET_FILE_NAMES))
  <2>1. StepsOf(Other) \subseteq StepsOf(SECRET_FILE_NAMES)
    BY DEF StepsOf
  <2> HIDE DEF Other
  <2> QED
    BY <1>8, <2>1, LenProperties
<1>10. /\ Len(InitPlan) = Len(A) + 4
       /\ \A i \in 1 .. Len(A) + 4 : InitPlan[i] = IF i <= Len(A) THEN A[i] ELSE Dp[i - Len(A)]
  <2> DEFINE T == StepsOf(SECRET_FILE_NAMES)
  <2>1. A \in Seq(T) /\ Dp \in Seq(T) /\ Len(Dp) = 4
    BY <1>6, <1>9
  <2> HIDE DEF T
  <2>2. /\ Len(InitPlan) = Len(A) + Len(Dp)
        /\ \A i \in 1 .. Len(A) + Len(Dp) :
              InitPlan[i] = IF i <= Len(A) THEN A[i] ELSE Dp[i - Len(A)]
    <3>1. /\ Len(A \o Dp) = Len(A) + Len(Dp)
          /\ \A i \in 1 .. Len(A) + Len(Dp) :
                (A \o Dp)[i] = IF i <= Len(A) THEN A[i] ELSE Dp[i - Len(A)]
      BY <2>1, ConcatProperties, Zenon
    <3> QED
      BY <1>1, <3>1, Zenon
  <2> QED
    BY <2>1, <2>2
<1>11. ASSUME NEW i \in 1 .. Len(A)
       PROVE  InitPlan[i] \in StepsOf(Other)
  <2>1. i \in 1 .. Len(A) + 4 /\ i <= Len(A)
    BY <1>9
  <2> QED
    BY <1>9, <1>10, <2>1
<1>12. /\ InitPlan[Len(A) + 1] = Write("cert", gen[DP_LOGICAL])
       /\ InitPlan[Len(A) + 2] = Write("certPw", gen[DP_LOGICAL])
       /\ InitPlan[Len(A) + 3] = Write("prev", Empty)
       /\ InitPlan[Len(A) + 4] = Write("prevPw", Empty)
  <2>1. /\ Len(A) + 1 \in 1 .. Len(A) + 4 /\ Len(A) + 2 \in 1 .. Len(A) + 4
        /\ Len(A) + 3 \in 1 .. Len(A) + 4 /\ Len(A) + 4 \in 1 .. Len(A) + 4
        /\ (Len(A) + 1) - Len(A) = 1 /\ (Len(A) + 2) - Len(A) = 2
        /\ (Len(A) + 3) - Len(A) = 3 /\ (Len(A) + 4) - Len(A) = 4
        /\ ~(Len(A) + 1 <= Len(A)) /\ ~(Len(A) + 2 <= Len(A))
        /\ ~(Len(A) + 3 <= Len(A)) /\ ~(Len(A) + 4 <= Len(A))
    BY <1>9
  <2> QED
    BY <1>6, <1>10, <2>1
<1>13. ASSUME NEW i \in 1 .. Len(A) + 4
       PROVE  i \in 1 .. Len(A) \/ i = Len(A) + 1 \/ i = Len(A) + 2 \/ i = Len(A) + 3 \/ i = Len(A) + 4
  BY <1>9
<1>14. ASSUME NEW i \in 1 .. Len(A) + 4
       PROVE  /\ InitPlan[i].op = "write"
              /\ InitPlan[i].name \in SECRET_FILE_NAMES /\ InitPlan[i].val \in Number
              /\ InitPlan[i].name \in {"cert", "certPw"} => InitPlan[i].val = gen[DP_LOGICAL]
              /\ InitPlan[i].name \in {"prev", "prevPw"} => InitPlan[i].val = Empty
              /\ InitPlan[i].name = "prevPw" => i = Len(A) + 4
  <2>1. CASE i \in 1 .. Len(A)
    BY <2>1, <1>11 DEF StepsOf, DP_SECRETS
  <2>2. CASE i = Len(A) + 1
    BY <2>2, <1>2, <1>12, Names DEF Write, DP_SECRETS
  <2>3. CASE i = Len(A) + 2
    BY <2>3, <1>2, <1>12, Names DEF Write, DP_SECRETS
  <2>4. CASE i = Len(A) + 3
    BY <2>4, <1>12, Names, NumberFacts DEF Write, DP_SECRETS
  <2>5. CASE i = Len(A) + 4
    BY <2>5, <1>12, Names, NumberFacts DEF Write, DP_SECRETS
  <2> QED
    BY <1>13, <2>1, <2>2, <2>3, <2>4, <2>5
<1> QED
  BY <1>9, <1>10, <1>14

(* Length and elements of a tuple.                                         *)
LEMMA Tuples ==
    ASSUME NEW s, NEW a, NEW b, NEW c, NEW d
    PROVE  /\ s = <<a, b, c, d>> => Len(s) = 4 /\ s[1] = a /\ s[2] = b /\ s[3] = c /\ s[4] = d
           /\ s = <<a, b, c>> => Len(s) = 3 /\ s[1] = a /\ s[2] = b /\ s[3] = c
           /\ s = <<a, b>> => Len(s) = 2 /\ s[1] = a /\ s[2] = b
           /\ s = <<a>> => Len(s) = 1 /\ s[1] = a
    OBVIOUS

(* One element before two.                                                 *)
LEMMA ConsSeq ==
    ASSUME NEW a, NEW b, NEW c
    PROVE  <<a>> \o <<b, c>> = <<a, b, c>>
<1> DEFINE S == {a, b, c}
           s == <<a>>
           t == <<b, c>>
           u == <<a, b, c>>
<1>1. s \in Seq(S) /\ t \in Seq(S) /\ u \in Seq(S) /\ Len(s) = 1 /\ Len(t) = 2 /\ Len(u) = 3
  OBVIOUS
<1>2. s[1] = a /\ t[1] = b /\ t[2] = c /\ u[1] = a /\ u[2] = b /\ u[3] = c
  OBVIOUS
<1> HIDE DEF S, s, t, u
<1>3. /\ s \o t \in Seq(S) /\ Len(s \o t) = Len(s) + Len(t)
      /\ \A i \in 1 .. Len(s) + Len(t) : (s \o t)[i] = IF i <= Len(s) THEN s[i] ELSE t[i - Len(s)]
  BY <1>1, ConcatProperties, Zenon
<1>4. Len(s \o t) = 3
  BY <1>1, <1>3
<1>5. ASSUME NEW i \in 1 .. 3 PROVE (s \o t)[i] = u[i]
  BY <1>1, <1>2, <1>3
<1>6. s \o t = u
  BY <1>1, <1>3, <1>4, <1>5, SeqEqual
<1> QED
  BY <1>6 DEF s, t, u

(* The plan of every command, spelled out.                                 *)
LEMMA Plans ==
    /\ job.cmd = "init" => Plan(job) = InitPlan
    /\ job.cmd = "add" =>
         Plan(job) = <<Write("cert", gen[DP_LOGICAL]), Write("certPw", gen[DP_LOGICAL]),
                       Write("prev", Empty), Write("prevPw", Empty)>>
    /\ job.cmd = "rotateCert" =>
         Plan(job) = <<Write("prev", job.old), Write("prevPw", job.oldPw),
                       Write("cert", gen[DP_LOGICAL]), Write("certPw", gen[DP_LOGICAL])>>
    /\ job.cmd = "rotate" => Plan(job) = files_for(job.what, gen[job.what])
    /\ job.cmd = "rotateDb" /\ job.what = "migrator_db" =>
         Plan(job) = <<Do("alterRole"),
                       Write("dbPw", gen["migrator_db"]), Write("dbConn", gen["migrator_db"])>>
    /\ job.cmd = "retirePrev" => Plan(job) = <<Write("prev", Empty), Write("prevPw", Empty)>>
    /\ job.cmd = "retireBoot" => Plan(job) = <<Write("bootstrap", Empty)>>
    /\ job.cmd = "prepare" => Plan(job) = <<Do("createVolume"), Do("prepare")>>
    /\ job.cmd = "reset" => Plan(job) = <<Do("stop"), Do("delete"), Do("prepare")>>
    /\ job.cmd = "resetAll" => Plan(job) = <<Do("stop"), Do("deleteAll"), Do("prepare")>>
    /\ job.cmd = "up" => Plan(job) = <<Do("createVolume"), Do("prepare"), Do("start")>>
<1>1. RotateDbPlan("migrator_db") =
        <<Do("alterRole"), Write("dbPw", gen["migrator_db"]), Write("dbConn", gen["migrator_db"])>>
  BY FilesFor, ConsSeq DEF RotateDbPlan
<1>2. files_for(DP_LOGICAL, gen[DP_LOGICAL]) =
        <<Write("cert", gen[DP_LOGICAL]), Write("certPw", gen[DP_LOGICAL]),
          Write("prev", Empty), Write("prevPw", Empty)>>
  BY FilesFor
<1> QED
  BY <1>1, <1>2 DEF Plan, RotatePlan

(* The four writes of a certificate rotation, in their order.              *)
PlanRotateWrite(w) ==
    /\ Len(Plan(job)) = 4 /\ job.at \in 1 .. 4
    /\ w = CASE job.at = 1 -> Write("prev", job.old)
             [] job.at = 2 -> Write("prevPw", job.oldPw)
             [] job.at = 3 -> Write("cert", gen[DP_LOGICAL])
             [] job.at = 4 -> Write("certPw", gen[DP_LOGICAL])

(* A write of `init` or `add`.                                             *)
PlanNewWrite(w) ==
    /\ w.name \in {"cert", "certPw"} => w.val = gen[DP_LOGICAL]
    /\ w.name \in {"prev", "prevPw"} => w.val = Empty
    /\ w.name = "prevPw" => job.at = Len(Plan(job))

(* A write of a database rotation: the role was altered before.            *)
PlanDbWrite(w) ==
    /\ Len(Plan(job)) = 3 /\ job.at \in 2 .. 3
    /\ w = IF job.at = 2 THEN Write("dbPw", gen["migrator_db"]) ELSE Write("dbConn", gen["migrator_db"])

(* What a write can be, command by command.                                *)
LEMMA WriteFacts ==
    ASSUME TypeOK, Step("write"), NEW w, w = Plan(job)[job.at]
    PROVE  /\ w.name \in SECRET_FILE_NAMES /\ w.val \in Number
           /\ job.cmd \in {"init", "add"} => PlanNewWrite(w)
           /\ job.cmd = "rotateCert" => PlanRotateWrite(w)
           /\ job.cmd = "retirePrev" => w.name \in {"prev", "prevPw"} /\ w.val = Empty
           /\ job.cmd \notin {"init", "add", "rotateCert", "retirePrev"} => w.name \notin DP_SECRETS
           /\ job.cmd = "rotateDb" => PlanDbWrite(w)
<1>1. /\ job.cmd \in Commands \ {"idle"} /\ job.at \in 1 .. Len(Plan(job)) /\ w.op = "write"
      /\ job.old \in Number /\ job.oldPw \in Number
      /\ \A l \in Logicals \cup {DP_LOGICAL} : gen[l] \in Number
  BY DEF TypeOK, Step
<1> USE Names, NumberFacts DEF Write, Do, DP_SECRETS
<1>2. CASE job.cmd = "init"
  BY <1>1, <1>2, Plans, InitPlanFacts DEF PlanNewWrite, TypeOK
<1>3. CASE job.cmd = "add"
  <2>1. Plan(job) = <<Write("cert", gen[DP_LOGICAL]), Write("certPw", gen[DP_LOGICAL]),
                      Write("prev", Empty), Write("prevPw", Empty)>>
    BY <1>3, Plans
  <2>2. /\ Len(Plan(job)) = 4 /\ Plan(job)[1] = Write("cert", gen[DP_LOGICAL])
        /\ Plan(job)[2] = Write("certPw", gen[DP_LOGICAL])
        /\ Plan(job)[3] = Write("prev", Empty) /\ Plan(job)[4] = Write("prevPw", Empty)
    BY <2>1, Tuples
  <2>3. job.at \in 1 .. 4
    BY <1>1, <2>2
  <2> QED
    BY <1>1, <1>3, <2>2, <2>3 DEF PlanNewWrite
<1>4. CASE job.cmd = "rotateCert"
  <2>1. Plan(job) = <<Write("prev", job.old), Write("prevPw", job.oldPw),
                      Write("cert", gen[DP_LOGICAL]), Write("certPw", gen[DP_LOGICAL])>>
    BY <1>4, Plans
  <2>2. /\ Len(Plan(job)) = 4 /\ Plan(job)[1] = Write("prev", job.old)
        /\ Plan(job)[2] = Write("prevPw", job.oldPw)
        /\ Plan(job)[3] = Write("cert", gen[DP_LOGICAL])
        /\ Plan(job)[4] = Write("certPw", gen[DP_LOGICAL])
    BY <2>1, Tuples
  <2>3. job.at \in 1 .. 4
    BY <1>1, <2>2
  <2> QED
    BY <1>1, <1>4, <2>2, <2>3 DEF PlanRotateWrite
<1>5. CASE job.cmd = "rotate"
  <2>1. job.what \in Logicals /\ job.what \in {"migrator_db", "redis", "keycloak_bootstrap"}
    BY <1>5, KeyRingAssumption DEF TypeOK, AllLogicals
  <2>2. CASE job.what = "migrator_db"
    BY <1>1, <1>5, <2>1, <2>2, Plans, FilesFor
  <2>3. CASE job.what = "redis"
    BY <1>1, <1>5, <2>1, <2>3, Plans, FilesFor
  <2>4. CASE job.what = "keycloak_bootstrap"
    BY <1>1, <1>5, <2>1, <2>4, Plans, FilesFor
  <2> QED
    BY <2>1, <2>2, <2>3, <2>4
<1>6. CASE job.cmd = "rotateDb"
  <2>1. job.what = "migrator_db" /\ "migrator_db" \in Logicals
    BY <1>6 DEF TypeOK
  <2>2. Plan(job) = <<Do("alterRole"),
                      Write("dbPw", gen["migrator_db"]), Write("dbConn", gen["migrator_db"])>>
    BY <1>6, <2>1, Plans
  <2>3. /\ Len(Plan(job)) = 3 /\ Plan(job)[1] = Do("alterRole")
        /\ Plan(job)[2] = Write("dbPw", gen["migrator_db"]) /\ Plan(job)[3] = Write("dbConn", gen["migrator_db"])
    BY <2>2, Tuples
  <2>4. job.at \in 1 .. 3
    BY <1>1, <2>3
  <2> QED
    BY <1>1, <1>6, <2>1, <2>3, <2>4 DEF PlanDbWrite
<1>7. CASE job.cmd = "retirePrev"
  <2>1. Plan(job) = <<Write("prev", Empty), Write("prevPw", Empty)>>
    BY <1>7, Plans
  <2>2. /\ Len(Plan(job)) = 2 /\ Plan(job)[1] = Write("prev", Empty)
        /\ Plan(job)[2] = Write("prevPw", Empty)
    BY <2>1, Tuples
  <2>3. job.at \in 1 .. 2
    BY <1>1, <2>2
  <2> QED
    BY <1>1, <1>7, <2>2, <2>3
<1>8. CASE job.cmd = "retireBoot"
  <2>1. "keycloak_bootstrap" \in Logicals
    BY <1>8 DEF TypeOK
  <2>2. Len(Plan(job)) = 1 /\ Plan(job)[1] = Write("bootstrap", Empty)
    BY <1>8, Plans, Tuples
  <2> QED
    BY <1>1, <1>8, <2>1, <2>2
<1>9. CASE job.cmd \in {"prepare", "reset", "resetAll", "up"}
  BY <1>1, <1>9, Plans
<1> QED
  BY <1>1, <1>2, <1>3, <1>4, <1>5, <1>6, <1>7, <1>8, <1>9 DEF Commands

(* Which commands have steps that are no writes.                           *)
LEMMA OtherFacts ==
    ASSUME TypeOK, job.cmd # "idle", Plan(job)[job.at].op # "write"
    PROVE  /\ job.cmd \in {"rotateDb", "prepare", "reset", "resetAll", "up"}
           /\ job.cmd = "rotateDb" => job.at = 1 /\ Plan(job)[job.at].op = "alterRole"
<1>1. /\ job.cmd \in Commands \ {"idle"} /\ job.at \in 1 .. Len(Plan(job))
      /\ job.cmd = "rotateDb" => job.what = "migrator_db"
  BY DEF TypeOK
<1> USE DEF Write, Do
<1>2. job.cmd # "init"
  BY <1>1, Plans, InitPlanFacts DEF TypeOK
<1>3. job.cmd \notin {"add", "rotateCert"}
  BY <1>1, Plans
<1>4. job.cmd # "rotate"
  <2>1. job.cmd = "rotate" => job.what \in {"migrator_db", "redis", "keycloak_bootstrap"}
    BY KeyRingAssumption DEF TypeOK, AllLogicals
  <2>2. ASSUME job.cmd = "rotate", job.what \in {"migrator_db", "redis"} PROVE FALSE
    <3>1. \E f, g : Plan(job) = <<Write(f, gen[job.what]), Write(g, gen[job.what])>>
      BY <2>2, Plans, FilesFor
    <3>2. Len(Plan(job)) = 2 /\ Plan(job)[1].op = "write" /\ Plan(job)[2].op = "write"
      BY <3>1, Tuples
    <3> QED
      BY <1>1, <3>2
  <2>3. ASSUME job.cmd = "rotate", job.what = "keycloak_bootstrap" PROVE FALSE
    <3>1. Len(Plan(job)) = 1 /\ Plan(job)[1] = Write("bootstrap", gen[job.what])
      BY <2>3, Plans, FilesFor, Tuples
    <3> QED
      BY <1>1, <3>1
  <2> QED
    BY <2>1, <2>2, <2>3
<1>5. job.cmd \notin {"retirePrev", "retireBoot"}
  BY <1>1, Plans
<1>6. job.cmd = "rotateDb" => job.at = 1 /\ Plan(job)[job.at].op = "alterRole"
  BY <1>1, Plans
<1> QED
  BY <1>1, <1>2, <1>3, <1>4, <1>5, <1>6 DEF Commands

(* Type of the command and of the counters, without the position.          *)
JobTyped ==
    /\ gen \in [Logicals \cup {DP_LOGICAL} -> Number]
    /\ job \in [cmd : Commands, at : Nat, what : Logicals \cup {"none"}, old : Number, oldPw : Number]
    /\ job.cmd \in {"rotate", "rotateDb"} => job.what \in Logicals
    /\ job.cmd = "rotateDb" => job.what = "migrator_db"

(* No command has an empty plan.                                           *)
LEMMA PlanLength == JobTyped /\ job.cmd # "idle" => Len(Plan(job)) \in Nat \ {0}
<1> SUFFICES ASSUME JobTyped, job.cmd # "idle" PROVE Len(Plan(job)) \in Nat \ {0}
  OBVIOUS
<1>1. job.cmd = "init" => Len(Plan(job)) \in Nat \ {0}
  BY Plans, InitPlanFacts DEF JobTyped
<1>2. job.cmd \in {"add", "rotateCert"} => Len(Plan(job)) = 4
  BY Plans, Tuples
<1>3. job.cmd = "rotate" => Len(Plan(job)) \in {1, 2}
  <2>1. job.cmd = "rotate" => job.what \in {"migrator_db", "redis", "keycloak_bootstrap"}
    BY KeyRingAssumption DEF JobTyped, AllLogicals
  <2> QED
    BY <2>1, Plans, FilesFor, Tuples
<1>4. job.cmd = "rotateDb" => Len(Plan(job)) = 3
  BY Plans, Tuples DEF JobTyped
<1>5. job.cmd \in {"retirePrev", "prepare"} => Len(Plan(job)) = 2
  BY Plans, Tuples
<1>6. job.cmd = "retireBoot" => Len(Plan(job)) = 1
  BY Plans, Tuples
<1>7. job.cmd \in {"reset", "resetAll", "up"} => Len(Plan(job)) = 3
  BY Plans, Tuples
<1>8. job.cmd \in Commands \ {"idle"}
  BY DEF JobTyped
<1> QED
  BY <1>1, <1>2, <1>3, <1>4, <1>5, <1>6, <1>7, <1>8 DEF Commands

(* The same after a step.                                                  *)
LEMMA PlanLengthNext == (JobTyped /\ job.cmd # "idle" => Len(Plan(job)) \in Nat \ {0})'
  BY PlanLength, PTL

(* A command's plan stays the same while it runs.                          *)
LEMMA SamePlan ==
    ASSUME TypeOK, gen' = gen, job' = [job EXCEPT !.at = job.at + 1]
    PROVE  Plan(job)' = Plan(job)
<1>1. job'.cmd = job.cmd /\ job'.what = job.what /\ job'.old = job.old /\ job'.oldPw = job.oldPw
  BY DEF TypeOK
<1>2. InitPlan' = InitPlan
  BY DEF InitPlan
<1> QED
  BY <1>1, <1>2 DEF Plan, RotatePlan, RotateDbPlan

(* A command that goes on stands at a step of its plan.                    *)
LEMMA JobSteps ==
    ASSUME TypeOK, JobTyped', job.cmd # "idle", gen' = gen, Advance
    PROVE  job'.cmd # "idle" => job'.at \in 1 .. Len(Plan(job)')
<1>1. CASE job' = Idle
  BY <1>1 DEF Idle
<1>2. CASE job.at # Len(Plan(job)) /\ job' = [job EXCEPT !.at = job.at + 1]
  <2>1. Plan(job)' = Plan(job)
    BY <1>2, SamePlan
  <2>2. Len(Plan(job)) \in Nat /\ job.at \in 1 .. Len(Plan(job))
    BY PlanLength DEF TypeOK, JobTyped
  <2>3. job'.at = job.at + 1
    BY <1>2 DEF TypeOK
  <2> QED
    BY <1>2, <2>1, <2>2, <2>3
<1> QED
  BY <1>1, <1>2 DEF Advance

(* A command that begins stands at a step of its plan.                     *)
LEMMA BeginSteps ==
    ASSUME JobTyped', job'.at = 1
    PROVE  job'.cmd # "idle" => job'.at \in 1 .. Len(Plan(job)')
<1>1. job'.cmd # "idle" => Len(Plan(job)') \in Nat \ {0}
  BY PlanLengthNext
<1> QED
  BY <1>1

(* Type of everything but the command.                                     *)
DataTyped ==
    /\ file \in [SECRET_FILE_NAMES -> Content]
    /\ role \in Number
    /\ volume \in [exists : BOOLEAN, prepared : BOOLEAN, odd : BOOLEAN]
    /\ key \in [Slots -> KeyFile]
    /\ bff \in [up : BOOLEAN, cur : Number, prev : Number]
    /\ forced \in BOOLEAN /\ torn \in BOOLEAN

(* TypeOK, part by part.                                                   *)
LEMMA TypeSplit ==
    TypeOK <=> /\ DataTyped /\ JobTyped
               /\ job.cmd # "idle" => job.at \in 1 .. Len(Plan(job))
               /\ job.cmd = "retireBoot" => "keycloak_bootstrap" \in Logicals
    BY DEF TypeOK, DataTyped, JobTyped

(* The state of a BFF that was started.                                    *)
LEMMA StartedTyped ==
    ASSUME TypeOK
    PROVE  StartedBff(file) \in [up : BOOLEAN, cur : Number, prev : Number]
<1>1. \A c, p \in Content : TryLoad(c, p) \in Number
  BY NumberFacts DEF TryLoad, Content, Absent, Empty, Number
<1>2. \A n \in DP_SECRETS : file[n] \in Content
  BY Names DEF TypeOK
<1> QED
  BY <1>1, <1>2, NumberFacts DEF StartedBff, Stopped, DP_SECRETS

(* The absent key and the stopped BFF.                                     *)
LEMMA KeyTypes == NoKey \in KeyFile /\ Stopped \in [up : BOOLEAN, cur : Number, prev : Number]
    BY NumberFacts DEF NoKey, KeyFile, Stopped

(* `up` found every secret file, and nobody removes one while it runs.     *)
UpInv == job.cmd = "up" => \A n \in SECRET_FILE_NAMES : file[n] # Absent

(* Only `up` starts the stack.                                             *)
LEMMA StartIsUp == ASSUME TypeOK, Step("start") PROVE job.cmd = "up"
<1>1. job.at \in 1 .. Len(Plan(job)) /\ Plan(job)[job.at].op = "start" /\ job.cmd # "idle"
  BY DEF TypeOK, Step
<1> USE DEF Do
<1>2. job.cmd \in {"rotateDb", "prepare", "reset", "resetAll", "up"} /\ job.cmd # "rotateDb"
  BY <1>1, OtherFacts
<1>3. job.cmd # "prepare"
  BY <1>1, Plans, Tuples
<1>4. job.cmd # "reset"
  BY <1>1, Plans, Tuples
<1>5. job.cmd # "resetAll"
  BY <1>1, Plans, Tuples
<1> QED
  BY <1>2, <1>3, <1>4, <1>5

(* Every step keeps UpInv.                                                 *)
LEMMA UpStep ==
    ASSUME TypeOK, UpInv, [Next]_vars
    PROVE  UpInv'
<1> USE NumberFacts DEF UpInv
<1>1. ASSUME cmd_secrets_init PROVE UpInv'
  BY <1>1 DEF cmd_secrets_init, Begin
<1>2. ASSUME cmd_secrets_add PROVE UpInv'
  BY <1>2 DEF cmd_secrets_add, Begin
<1>3. ASSUME NEW drop \in BOOLEAN, rotate_certificate(drop) PROVE UpInv'
  BY <1>3 DEF rotate_certificate, Begin
<1>4. ASSUME NEW l \in Logicals, NEW db \in BOOLEAN, cmd_secrets_rotate(l, db) PROVE UpInv'
  BY <1>4 DEF cmd_secrets_rotate, Begin
<1>5. ASSUME retire_previous_certificate PROVE UpInv'
  BY <1>5 DEF retire_previous_certificate, Begin
<1>6. ASSUME cmd_secrets_retire PROVE UpInv'
  BY <1>6 DEF cmd_secrets_retire, Begin
<1>7. ASSUME cmd_keyring_prepare PROVE UpInv'
  BY <1>7 DEF cmd_keyring_prepare, Begin
<1>8. ASSUME NEW all \in BOOLEAN, cmd_keyring_reset(all) PROVE UpInv'
  BY <1>8 DEF cmd_keyring_reset, Begin
<1>9. ASSUME cmd_up PROVE UpInv'
  BY <1>9 DEF cmd_up, Begin, secrets_clean, shape_ok
<1>10. ASSUME write_atomic PROVE UpInv'
  <2> DEFINE w == Plan(job)[job.at]
  <2>1. w.name \in SECRET_FILE_NAMES /\ w.val \in Number
    BY <1>10, WriteFacts DEF write_atomic
  <2>2. file' = [file EXCEPT ![w.name] = w.val]
    BY <1>10 DEF write_atomic
  <2>3. job'.cmd \in {job.cmd, "idle"}
    BY <1>10 DEF write_atomic, Advance, Idle, TypeOK
  <2> HIDE DEF w
  <2> QED
    BY <2>1, <2>2, <2>3 DEF TypeOK
<1>11. ASSUME alter_role PROVE UpInv'
  BY <1>11 DEF alter_role, TypeOK, Advance, Idle
<1>12. ASSUME keyring_create PROVE UpInv'
  BY <1>12 DEF keyring_create, TypeOK, Advance, Idle
<1>13. ASSUME keyring_prepare PROVE UpInv'
  BY <1>13 DEF keyring_prepare, TypeOK, Advance, Idle
<1>14. ASSUME stop_bff PROVE UpInv'
  BY <1>14 DEF stop_bff, TypeOK, Advance, Idle
<1>15. ASSUME keyring_delete PROVE UpInv'
  BY <1>15 DEF keyring_delete, TypeOK, Advance, Idle
<1>16. ASSUME compose_up PROVE UpInv'
  BY <1>16 DEF compose_up, TypeOK, Advance, Idle
<1>17. ASSUME StepFails PROVE UpInv'
  BY <1>17 DEF StepFails, TypeOK, Idle
<1>18. ASSUME Interrupted PROVE UpInv'
  BY <1>18 DEF Interrupted, TypeOK, Idle
<1>19. ASSUME RestartBff PROVE UpInv'
  BY <1>19 DEF RestartBff, TypeOK, Idle
<1>20. ASSUME StopBff PROVE UpInv'
  BY <1>20 DEF StopBff, TypeOK, Idle
<1>21. ASSUME NEW s \in Slots, CreateKey(s) PROVE UpInv'
  BY <1>21 DEF CreateKey, TypeOK, Idle
<1>22. ASSUME NEW s \in Slots, ExpireKey(s) PROVE UpInv'
  BY <1>22 DEF ExpireKey, TypeOK, Idle
<1>23. ASSUME RemoveHalfWritten PROVE UpInv'
  BY <1>23 DEF RemoveHalfWritten, TypeOK, Idle
<1>24. ASSUME RemoveVolume PROVE UpInv'
  BY <1>24 DEF RemoveVolume, TypeOK, Idle
<1>25. ASSUME UNCHANGED vars PROVE UpInv'
  BY <1>25 DEF vars
<1> QED
  BY <1>1, <1>2, <1>3, <1>4, <1>5, <1>6, <1>7, <1>8, <1>9, <1>10, <1>11, <1>12,
     <1>13, <1>14, <1>15, <1>16, <1>17, <1>18, <1>19, <1>20, <1>21, <1>22, <1>23, <1>24,
     <1>25 DEF Next

(* Only a database rotation alters the role.                               *)
LEMMA AlterIsRotateDb ==
    ASSUME TypeOK, Step("alterRole") PROVE job.cmd = "rotateDb" /\ "migrator_db" \in Logicals
<1>1. job.at \in 1 .. Len(Plan(job)) /\ Plan(job)[job.at].op = "alterRole" /\ job.cmd # "idle"
  BY DEF TypeOK, Step
<1> USE DEF Do
<1>2. job.cmd \in {"rotateDb", "prepare", "reset", "resetAll", "up"}
  BY <1>1, OtherFacts
<1>3. job.cmd # "prepare"
  BY <1>1, Plans, Tuples
<1>4. job.cmd # "reset"
  BY <1>1, Plans, Tuples
<1>5. job.cmd # "resetAll"
  BY <1>1, Plans, Tuples
<1>6. job.cmd # "up"
  BY <1>1, Plans, Tuples
<1> QED
  BY <1>2, <1>3, <1>4, <1>5, <1>6 DEF TypeOK

(* Every step keeps the type of the data.                                  *)
LEMMA DataStep ==
    ASSUME TypeOK, UpInv, [Next]_vars
    PROVE  DataTyped'
<1> USE NumberFacts, KeyTypes DEF DataTyped
<1>1. ASSUME cmd_secrets_init PROVE DataTyped'
  BY <1>1 DEF cmd_secrets_init, Begin, TypeOK
<1>2. ASSUME cmd_secrets_add PROVE DataTyped'
  BY <1>2 DEF cmd_secrets_add, Begin, TypeOK
<1>3. ASSUME NEW drop \in BOOLEAN, rotate_certificate(drop) PROVE DataTyped'
  BY <1>3 DEF rotate_certificate, Begin, TypeOK
<1>4. ASSUME NEW l \in Logicals, NEW db \in BOOLEAN, cmd_secrets_rotate(l, db) PROVE DataTyped'
  BY <1>4 DEF cmd_secrets_rotate, Begin, TypeOK
<1>5. ASSUME retire_previous_certificate PROVE DataTyped'
  BY <1>5 DEF retire_previous_certificate, Begin, TypeOK
<1>6. ASSUME cmd_secrets_retire PROVE DataTyped'
  BY <1>6 DEF cmd_secrets_retire, Begin, TypeOK
<1>7. ASSUME cmd_keyring_prepare PROVE DataTyped'
  BY <1>7 DEF cmd_keyring_prepare, Begin, TypeOK
<1>8. ASSUME NEW all \in BOOLEAN, cmd_keyring_reset(all) PROVE DataTyped'
  BY <1>8 DEF cmd_keyring_reset, Begin, TypeOK
<1>9. ASSUME cmd_up PROVE DataTyped'
  BY <1>9 DEF cmd_up, Begin, TypeOK
<1>10. ASSUME write_atomic PROVE DataTyped'
  <2> DEFINE w == Plan(job)[job.at]
  <2>1. w.name \in SECRET_FILE_NAMES /\ w.val \in Content
    BY <1>10, WriteFacts DEF write_atomic, Content
  <2> HIDE DEF w
  <2>2. file' \in [SECRET_FILE_NAMES -> Content]
    BY <1>10, <2>1 DEF write_atomic, TypeOK, w
  <2> QED
    BY <1>10, <2>2 DEF write_atomic, TypeOK
<1>11. ASSUME alter_role PROVE DataTyped'
  BY <1>11, AlterIsRotateDb DEF alter_role, TypeOK
<1>12. ASSUME keyring_create PROVE DataTyped'
  BY <1>12 DEF keyring_create, TypeOK
<1>13. ASSUME keyring_prepare PROVE DataTyped'
  BY <1>13 DEF keyring_prepare, TypeOK
<1>14. ASSUME stop_bff PROVE DataTyped'
  BY <1>14 DEF stop_bff, TypeOK
<1>15. ASSUME keyring_delete PROVE DataTyped'
  <2>1. key' \in [Slots -> KeyFile]
    BY <1>15 DEF keyring_delete, TypeOK
  <2> QED
    BY <1>15, <2>1 DEF keyring_delete, TypeOK
<1>16. ASSUME compose_up PROVE DataTyped'
  <2>1. role' \in Number
    <3>1. CASE role = Empty /\ "migrator_db" \in Logicals
      BY <1>16, <3>1, Names, StartIsUp DEF compose_up, TypeOK, UpInv, Content
    <3> QED
      BY <1>16, <3>1 DEF compose_up, TypeOK
  <2> QED
    BY <1>16, <2>1, StartedTyped DEF compose_up, TypeOK
<1>17. ASSUME StepFails PROVE DataTyped'
  BY <1>17 DEF StepFails, TypeOK
<1>18. ASSUME Interrupted PROVE DataTyped'
  BY <1>18 DEF Interrupted, TypeOK
<1>19. ASSUME RestartBff PROVE DataTyped'
  BY <1>19, StartedTyped DEF RestartBff, TypeOK
<1>20. ASSUME StopBff PROVE DataTyped'
  BY <1>20 DEF StopBff, TypeOK
<1>21. ASSUME NEW s \in Slots, CreateKey(s) PROVE DataTyped'
  <2>1. [kind |-> "wrapped", cert |-> bff.cur, live |-> TRUE] \in KeyFile
    BY DEF TypeOK, KeyFile
  <2>2. key' \in [Slots -> KeyFile]
    BY <1>21, <2>1 DEF CreateKey, TypeOK
  <2> QED
    BY <1>21, <2>2 DEF CreateKey, TypeOK
<1>22. ASSUME NEW s \in Slots, ExpireKey(s) PROVE DataTyped'
  <2>1. [kind |-> key[s].kind, cert |-> key[s].cert, live |-> FALSE] \in KeyFile
    BY DEF TypeOK, KeyFile
  <2>2. key' \in [Slots -> KeyFile]
    BY <1>22, <2>1 DEF ExpireKey, TypeOK
  <2> QED
    BY <1>22, <2>2 DEF ExpireKey, TypeOK
<1>23. ASSUME RemoveHalfWritten PROVE DataTyped'
  BY <1>23 DEF RemoveHalfWritten, TypeOK, Content
<1>24. ASSUME RemoveVolume PROVE DataTyped'
  BY <1>24 DEF RemoveVolume, TypeOK
<1>25. ASSUME UNCHANGED vars PROVE DataTyped'
  BY <1>25 DEF vars, TypeOK
<1> QED
  BY <1>1, <1>2, <1>3, <1>4, <1>5, <1>6, <1>7, <1>8, <1>9, <1>10, <1>11, <1>12,
     <1>13, <1>14, <1>15, <1>16, <1>17, <1>18, <1>19, <1>20, <1>21, <1>22, <1>23, <1>24,
     <1>25 DEF Next

(* The end of a command.                                                   *)
LEMMA IdleTyped == ASSUME TypeOK, job' = Idle, gen' = gen PROVE JobTyped'
    BY NumberFacts DEF TypeOK, JobTyped, Idle, Commands

(* The next step of a command.                                             *)
LEMMA AdvanceTyped == ASSUME TypeOK, Advance, gen' = gen PROVE JobTyped'
<1>1. CASE job' = Idle
  BY <1>1, IdleTyped
<1>2. CASE job' = [job EXCEPT !.at = job.at + 1]
  <2>1. job' \in [cmd : Commands, at : Nat, what : Logicals \cup {"none"}, old : Number, oldPw : Number]
    BY <1>2 DEF TypeOK
  <2>2. job'.cmd = job.cmd /\ job'.what = job.what
    BY <1>2 DEF TypeOK
  <2> QED
    BY <2>1, <2>2 DEF TypeOK, JobTyped
<1> QED
  BY <1>1, <1>2 DEF Advance

(* A fresh value of one credential stays within its bound.                 *)
LEMMA GenerateTyped ==
    ASSUME TypeOK, NEW l \in Logicals \cup {DP_LOGICAL}, Generate(l)
    PROVE  gen' \in [Logicals \cup {DP_LOGICAL} -> Number]
<1>1. gen[l] \in Number /\ gen[l] < Bound(l) /\ Bound(l) \in 1 .. MaxCerts
  BY KeyRingAssumption DEF TypeOK, Generate, Bound
<1>2. gen[l] + 1 \in Number
  BY <1>1, KeyRingAssumption DEF Number
<1> QED
  BY <1>2 DEF TypeOK, Generate

(* Fresh values of all credentials stay within their bounds.               *)
LEMMA GenerateAllTyped ==
    ASSUME TypeOK, cmd_secrets_init
    PROVE  gen' \in [Logicals \cup {DP_LOGICAL} -> Number]
<1>1. ASSUME NEW l \in Logicals \cup {DP_LOGICAL} PROVE gen[l] + 1 \in Number
  <2>1. gen[l] \in Number /\ gen[l] < Bound(l) /\ Bound(l) \in 1 .. MaxCerts
    BY KeyRingAssumption DEF TypeOK, cmd_secrets_init, Bound
  <2> QED
    BY <2>1, KeyRingAssumption DEF Number
<1> QED
  BY <1>1 DEF TypeOK, cmd_secrets_init

(* Files of the right shape hold numbers.                                  *)
LEMMA PresentTyped == ASSUME TypeOK, \A f \in DP_SECRETS : shape_ok(f, file[f])
                      PROVE  \A f \in DP_SECRETS : file[f] \in Number
    BY Names DEF TypeOK, shape_ok, Content

(* The start of a command.                                                 *)
LEMMA BeginTyped ==
    ASSUME NEW c \in Commands, NEW x \in Logicals \cup {"none"}, NEW m \in Number, NEW n \in Number,
           Begin(c, x, m, n), gen' \in [Logicals \cup {DP_LOGICAL} -> Number],
           c \in {"rotate", "rotateDb"} => x \in Logicals, c = "rotateDb" => x = "migrator_db"
    PROVE  JobTyped' /\ job'.at = 1 /\ job'.cmd = c
    BY DEF Begin, JobTyped

(* What TypeOK says of the command: its position, the credential it        *)
(* retires, and all of it.                                                 *)
PositionTyped == job.cmd # "idle" => job.at \in 1 .. Len(Plan(job))
BootTyped == job.cmd = "retireBoot" => "keycloak_bootstrap" \in Logicals
JobOK == JobTyped /\ PositionTyped /\ BootTyped

(* A command goes on or ends.                                              *)
LEMMA AdvanceKeepsCmd == ASSUME TypeOK, Advance PROVE job'.cmd \in {job.cmd, "idle"}
    BY DEF TypeOK, Advance, Idle

(* Steps beside the command leave it well typed.                           *)
LEMMA SameJob ==
    ASSUME TypeOK, job' = job, gen' = gen
    PROVE  JobOK'
<1>1. InitPlan' = InitPlan
  BY DEF InitPlan
<1>2. Plan(job)' = Plan(job)
  BY <1>1 DEF Plan, RotatePlan, RotateDbPlan
<1> QED
  BY <1>2 DEF TypeOK, JobTyped, JobOK, PositionTyped, BootTyped

(* Every step keeps the type of the command.                               *)
LEMMA JobStep ==
    ASSUME TypeOK, [Next]_vars
    PROVE  JobOK'
<1>1. ASSUME cmd_secrets_init PROVE JobOK'
  <2>1. gen' \in [Logicals \cup {DP_LOGICAL} -> Number]
    BY <1>1, GenerateAllTyped DEF cmd_secrets_init, TypeOK
  <2>2. Begin("init", "none", Empty, Empty)
    BY <1>1 DEF cmd_secrets_init
  <2>4. JobTyped' /\ job'.at = 1
    BY <2>1, <2>2, BeginTyped, NumberFacts DEF Commands
  <2> QED
    BY <1>1, <2>2, <2>4, BeginSteps DEF Begin, JobOK, PositionTyped, BootTyped, cmd_secrets_init
<1>2. ASSUME cmd_secrets_add PROVE JobOK'
  <2>1. gen' \in [Logicals \cup {DP_LOGICAL} -> Number]
    BY <1>2, GenerateTyped DEF cmd_secrets_add, TypeOK
  <2>2. Begin("add", "none", Empty, Empty)
    BY <1>2 DEF cmd_secrets_add
  <2>4. JobTyped' /\ job'.at = 1
    BY <2>1, <2>2, BeginTyped, NumberFacts DEF Commands
  <2> QED
    BY <1>2, <2>2, <2>4, BeginSteps DEF Begin, JobOK, PositionTyped, BootTyped, cmd_secrets_add
<1>3. ASSUME NEW drop \in BOOLEAN, rotate_certificate(drop) PROVE JobOK'
  <2>1. gen' \in [Logicals \cup {DP_LOGICAL} -> Number]
    BY <1>3, GenerateTyped DEF rotate_certificate, TypeOK
  <2>2. Begin("rotateCert", "none", file["cert"], file["certPw"])
    BY <1>3 DEF rotate_certificate
  <2>3. file["cert"] \in Number /\ file["certPw"] \in Number
    BY <1>3, PresentTyped DEF rotate_certificate, DP_SECRETS
  <2>4. JobTyped' /\ job'.at = 1
    BY <2>3, <2>1, <2>2, BeginTyped, NumberFacts DEF Commands
  <2> QED
    BY <1>3, <2>2, <2>4, BeginSteps DEF Begin, JobOK, PositionTyped, BootTyped, rotate_certificate
<1>4. ASSUME NEW l \in Logicals, NEW db \in BOOLEAN, cmd_secrets_rotate(l, db) PROVE JobOK'
  <2>1. gen' \in [Logicals \cup {DP_LOGICAL} -> Number]
    BY <1>4, GenerateTyped DEF cmd_secrets_rotate, TypeOK
  <2>2. Begin(IF db THEN "rotateDb" ELSE "rotate", l, Empty, Empty)
    BY <1>4 DEF cmd_secrets_rotate
  <2>3. db => l = "migrator_db"
    BY <1>4 DEF cmd_secrets_rotate
  <2>4. JobTyped' /\ job'.at = 1
    BY <2>3, <2>1, <2>2, BeginTyped, NumberFacts DEF Commands
  <2> QED
    BY <1>4, <2>2, <2>4, BeginSteps DEF Begin, JobOK, PositionTyped, BootTyped, cmd_secrets_rotate
<1>5. ASSUME retire_previous_certificate PROVE JobOK'
  <2>1. gen' \in [Logicals \cup {DP_LOGICAL} -> Number]
    BY <1>5 DEF retire_previous_certificate, TypeOK
  <2>2. Begin("retirePrev", "none", Empty, Empty)
    BY <1>5 DEF retire_previous_certificate
  <2>4. JobTyped' /\ job'.at = 1
    BY <2>1, <2>2, BeginTyped, NumberFacts DEF Commands
  <2> QED
    BY <1>5, <2>2, <2>4, BeginSteps DEF Begin, JobOK, PositionTyped, BootTyped, retire_previous_certificate
<1>6. ASSUME cmd_secrets_retire PROVE JobOK'
  <2>1. gen' \in [Logicals \cup {DP_LOGICAL} -> Number]
    BY <1>6 DEF cmd_secrets_retire, TypeOK
  <2>2. Begin("retireBoot", "none", Empty, Empty)
    BY <1>6 DEF cmd_secrets_retire
  <2>4. JobTyped' /\ job'.at = 1
    BY <2>1, <2>2, BeginTyped, NumberFacts DEF Commands
  <2> QED
    BY <1>6, <2>2, <2>4, BeginSteps DEF Begin, JobOK, PositionTyped, BootTyped, cmd_secrets_retire
<1>7. ASSUME cmd_keyring_prepare PROVE JobOK'
  <2>1. gen' \in [Logicals \cup {DP_LOGICAL} -> Number]
    BY <1>7 DEF cmd_keyring_prepare, TypeOK
  <2>2. Begin("prepare", "none", Empty, Empty)
    BY <1>7 DEF cmd_keyring_prepare
  <2>4. JobTyped' /\ job'.at = 1
    BY <2>1, <2>2, BeginTyped, NumberFacts DEF Commands
  <2> QED
    BY <1>7, <2>2, <2>4, BeginSteps DEF Begin, JobOK, PositionTyped, BootTyped, cmd_keyring_prepare
<1>8. ASSUME NEW all \in BOOLEAN, cmd_keyring_reset(all) PROVE JobOK'
  <2>1. gen' \in [Logicals \cup {DP_LOGICAL} -> Number]
    BY <1>8 DEF cmd_keyring_reset, TypeOK
  <2>2. Begin(IF all THEN "resetAll" ELSE "reset", "none", Empty, Empty)
    BY <1>8 DEF cmd_keyring_reset
  <2>4. JobTyped' /\ job'.at = 1
    BY <2>1, <2>2, BeginTyped, NumberFacts DEF Commands
  <2> QED
    BY <1>8, <2>2, <2>4, BeginSteps DEF Begin, JobOK, PositionTyped, BootTyped, cmd_keyring_reset
<1>9. ASSUME cmd_up PROVE JobOK'
  <2>1. gen' \in [Logicals \cup {DP_LOGICAL} -> Number]
    BY <1>9 DEF cmd_up, TypeOK
  <2>2. Begin("up", "none", Empty, Empty)
    BY <1>9 DEF cmd_up
  <2>4. JobTyped' /\ job'.at = 1
    BY <2>1, <2>2, BeginTyped, NumberFacts DEF Commands
  <2> QED
    BY <1>9, <2>2, <2>4, BeginSteps DEF Begin, JobOK, PositionTyped, BootTyped, cmd_up
<1>10. ASSUME write_atomic PROVE JobOK'
  <2>1. Advance /\ gen' = gen /\ job.cmd # "idle"
    BY <1>10 DEF write_atomic, Step
  <2> QED
    BY <2>1, AdvanceTyped, JobSteps, AdvanceKeepsCmd DEF JobOK, PositionTyped, BootTyped, TypeOK
<1>11. ASSUME alter_role PROVE JobOK'
  <2>1. Advance /\ gen' = gen /\ job.cmd # "idle"
    BY <1>11 DEF alter_role, Step
  <2> QED
    BY <2>1, AdvanceTyped, JobSteps, AdvanceKeepsCmd DEF JobOK, PositionTyped, BootTyped, TypeOK
<1>12. ASSUME keyring_create PROVE JobOK'
  <2>1. Advance /\ gen' = gen /\ job.cmd # "idle"
    BY <1>12 DEF keyring_create, Step
  <2> QED
    BY <2>1, AdvanceTyped, JobSteps, AdvanceKeepsCmd DEF JobOK, PositionTyped, BootTyped, TypeOK
<1>13. ASSUME keyring_prepare PROVE JobOK'
  <2>1. Advance /\ gen' = gen /\ job.cmd # "idle"
    BY <1>13 DEF keyring_prepare, Step
  <2> QED
    BY <2>1, AdvanceTyped, JobSteps, AdvanceKeepsCmd DEF JobOK, PositionTyped, BootTyped, TypeOK
<1>14. ASSUME stop_bff PROVE JobOK'
  <2>1. Advance /\ gen' = gen /\ job.cmd # "idle"
    BY <1>14 DEF stop_bff, Step
  <2> QED
    BY <2>1, AdvanceTyped, JobSteps, AdvanceKeepsCmd DEF JobOK, PositionTyped, BootTyped, TypeOK
<1>15. ASSUME keyring_delete PROVE JobOK'
  <2>1. Advance /\ gen' = gen /\ job.cmd # "idle"
    BY <1>15 DEF keyring_delete, Step
  <2> QED
    BY <2>1, AdvanceTyped, JobSteps, AdvanceKeepsCmd DEF JobOK, PositionTyped, BootTyped, TypeOK
<1>16. ASSUME compose_up PROVE JobOK'
  <2>1. Advance /\ gen' = gen /\ job.cmd # "idle"
    BY <1>16 DEF compose_up, Step
  <2> QED
    BY <2>1, AdvanceTyped, JobSteps, AdvanceKeepsCmd DEF JobOK, PositionTyped, BootTyped, TypeOK
<1>17. ASSUME StepFails PROVE JobOK'
  BY <1>17, IdleTyped DEF StepFails, JobOK, PositionTyped, BootTyped, Idle
<1>18. ASSUME Interrupted PROVE JobOK'
  BY <1>18, IdleTyped DEF Interrupted, JobOK, PositionTyped, BootTyped, Idle
<1>19. ASSUME RestartBff PROVE JobOK'
  BY <1>19, SameJob DEF RestartBff
<1>20. ASSUME StopBff PROVE JobOK'
  BY <1>20, SameJob DEF StopBff
<1>21. ASSUME NEW s \in Slots, CreateKey(s) PROVE JobOK'
  BY <1>21, SameJob DEF CreateKey
<1>22. ASSUME NEW s \in Slots, ExpireKey(s) PROVE JobOK'
  BY <1>22, SameJob DEF ExpireKey
<1>23. ASSUME RemoveHalfWritten PROVE JobOK'
  BY <1>23, SameJob DEF RemoveHalfWritten
<1>24. ASSUME RemoveVolume PROVE JobOK'
  BY <1>24, SameJob DEF RemoveVolume
<1>25. ASSUME UNCHANGED vars PROVE JobOK'
  BY <1>25, SameJob DEF vars
<1> QED
  BY <1>1, <1>2, <1>3, <1>4, <1>5, <1>6, <1>7, <1>8, <1>9, <1>10, <1>11, <1>12,
     <1>13, <1>14, <1>15, <1>16, <1>17, <1>18, <1>19, <1>20, <1>21, <1>22, <1>23, <1>24,
     <1>25 DEF Next

(* The initial states are well typed.                                      *)
LEMMA InitTyped == Init => TypeOK /\ UpInv
<1> SUFFICES ASSUME Init PROVE TypeOK /\ UpInv
  OBVIOUS
<1>1. NoVolume \in [exists : BOOLEAN, prepared : BOOLEAN, odd : BOOLEAN]
  BY DEF NoVolume
<1>2. \A k \in {"clear", "nullwrapped"} : [kind |-> k, cert |-> Empty, live |-> TRUE] \in KeyFile
  BY NumberFacts DEF KeyFile
<1>3. file \in [SECRET_FILE_NAMES -> Content]
  BY NumberFacts DEF Init, Content
<1>4. gen \in [Logicals \cup {DP_LOGICAL} -> Number]
  BY NumberFacts DEF Init, Empty
<1>5. role \in Number
  BY NumberFacts DEF Init
<1>6. volume \in [exists : BOOLEAN, prepared : BOOLEAN, odd : BOOLEAN]
  <2>1. \A odd \in BOOLEAN : [exists |-> TRUE, prepared |-> FALSE, odd |-> odd]
                              \in [exists : BOOLEAN, prepared : BOOLEAN, odd : BOOLEAN]
    OBVIOUS
  <2> QED
    BY <1>1, <2>1 DEF Init
<1>7. key \in [Slots -> KeyFile]
  <2>1. CASE key = [s \in Slots |-> NoKey]
    BY <2>1, KeyTypes
  <2>2. ASSUME NEW k \in {"clear", "nullwrapped"}, NEW s \in Slots,
               key = [t \in Slots |-> IF t = s THEN [kind |-> k, cert |-> Empty, live |-> TRUE] ELSE NoKey]
        PROVE  key \in [Slots -> KeyFile]
    BY <2>2, <1>2, KeyTypes
  <2> QED
    BY <2>1, <2>2 DEF Init
<1>8. /\ bff \in [up : BOOLEAN, cur : Number, prev : Number]
      /\ forced \in BOOLEAN /\ torn \in BOOLEAN
  BY KeyTypes DEF Init
<1>9. DataTyped
  BY <1>3, <1>5, <1>6, <1>7, <1>8 DEF DataTyped
<1>10. job = Idle /\ job.cmd = "idle"
  BY DEF Init, Idle
<1>11. JobTyped
  BY <1>4, <1>10, NumberFacts DEF JobTyped, Idle, Commands
<1> QED
  BY <1>9, <1>10, <1>11, TypeSplit DEF UpInv

(* Every step keeps the types.                                             *)
LEMMA TypeStep == ASSUME TypeOK, UpInv, [Next]_vars PROVE (TypeOK /\ UpInv)'
<1>1. DataTyped' /\ JobOK' /\ UpInv'
  BY DataStep, JobStep, UpStep
<1> QED
  BY <1>1 DEF TypeOK, DataTyped, JobTyped, JobOK, PositionTyped, BootTyped

(* Every state is well typed: a command in progress stands at a step of    *)
(* its plan, and the role's password is one that was generated.            *)
THEOREM TypeCorrect == Spec => []TypeOK
<1>1. Init => TypeOK /\ UpInv
  BY InitTyped
<1>2. TypeOK /\ UpInv /\ [Next]_vars => (TypeOK /\ UpInv)'
  BY TypeStep
<1> QED
  BY <1>1, <1>2, PTL DEF Spec

-----------------------------------------------------------------------------
(* The inductive invariant.                                                *)

(* One of the four certificate files is missing.                           *)
DPAbsent == \E f \in DP_SECRETS : file[f] = Absent

(* The BFF that runs loaded a certificate, and reads what is in the ring.  *)
RingInv ==
    /\ bff.up => bff.cur # Empty /\ ~DPAbsent
    /\ \A s \in Slots : key[s].kind = "wrapped" => key[s].cert # Empty
    /\ RunningBffReadsItsRing

(* No file is newer than the last certificate; and when a cut rotation     *)
(* left a certificate without its password, that password is in neither    *)
(* place.                                                                  *)
PasswordInv ==
    /\ \A f \in DP_SECRETS : file[f] <= gen[DP_LOGICAL]
    /\ file["cert"] # Empty /\ file["certPw"] # Empty
    /\ file["cert"] # Absent /\ file["certPw"] # file["cert"] => file["prevPw"] # file["cert"]

(* Where the files stand at each step of init, add, rotation and           *)
(* retirement.                                                             *)
PhaseInv ==
    /\ job.cmd \in {"init", "add"} =>
         /\ file["cert"] \in {Absent, gen[DP_LOGICAL]}
         /\ file["certPw"] \in {Absent, gen[DP_LOGICAL]}
         /\ file["prev"] \in {Absent, Empty}
         /\ file["prevPw"] = Absent
         /\ gen[DP_LOGICAL] # Empty
    /\ job.cmd = "rotateCert" =>
         /\ ~DPAbsent
         /\ job.old \in 1 .. gen[DP_LOGICAL] - 1 /\ job.oldPw \in 1 .. gen[DP_LOGICAL] - 1
         /\ file["cert"] = IF job.at = 4 THEN gen[DP_LOGICAL] ELSE job.old
         /\ file["certPw"] = job.oldPw
         /\ file["prev"] < gen[DP_LOGICAL] /\ file["prevPw"] < gen[DP_LOGICAL]
         /\ job.at >= 2 => file["prev"] = job.old
         /\ job.at >= 3 => file["prevPw"] = job.oldPw
    /\ job.cmd = "retirePrev" => file["prev"] # Absent /\ file["prevPw"] # Absent

(* Unless a rotation was cut between certificate and password, the current *)
(* pair belongs together, and the previous one does or shows that it does  *)
(* not.                                                                    *)
TornInv ==
    ~torn =>
      /\ job.cmd = "rotateCert" => job.old = job.oldPw
      /\ ~DPAbsent /\ ~(job.cmd = "rotateCert" /\ job.at = 4) => file["cert"] = file["certPw"]
      /\ ~DPAbsent => \/ file["prev"] = file["prevPw"] \/ file["prev"] = file["cert"]
                      \/ file["prev"] = Empty \/ file["prevPw"] = Empty

(* Certificate c will be in the folder whatever the running command still  *)
(* does: a rotation carries it over, a retirement leaves it as the current *)
(* one.                                                                    *)
Held(c) ==
    /\ ~DPAbsent
    /\ job.cmd = "rotateCert" => job.old = c /\ job.oldPw = c
    /\ job.cmd = "retirePrev" => file["cert"] = c /\ file["certPw"] = c
    /\ job.cmd \notin {"rotateCert", "retirePrev"} => Opens(c)

(* What a live key or the running BFF needs is held.                       *)
HeldInv == ~forced => \A c \in Number : Needed(c) => Held(c)

(* A database rotation altered the role before it wrote a file.            *)
RoleInv ==
    job.cmd = "rotateDb" =>
      /\ job.at >= 2 => role = gen["migrator_db"]
      /\ job.at >= 3 => file["dbPw"] = gen["migrator_db"]

(* A BFF that starts loaded the current pair and reads every live key.     *)
LEMMA StartedFacts ==
    ASSUME TypeOK, NEW b, b = StartedBff(file), b.up
    PROVE  /\ ~DPAbsent /\ b.cur = file["cert"] /\ b.cur = file["certPw"] /\ b.cur # Empty
           /\ \A s \in Present : keyring_rule_ok(key[s].kind)
           /\ \A s \in Present : key[s].kind = "wrapped" /\ key[s].live => key[s].cert \in {b.cur, b.prev} \ {Empty}
<1> DEFINE cur == TryLoad(file["cert"], file["certPw"])
           prev == TryLoad(file["prev"], file["prevPw"])
<1>1. /\ \A n \in DP_SECRETS : file[n] # Absent
      /\ OptionsValid(file) /\ StartupCheck(cur, prev) /\ b.cur = cur /\ b.prev = prev
  BY DEF StartedBff, Stopped
<1>2. cur # Empty /\ cur = file["cert"] /\ cur = file["certPw"]
  BY <1>1 DEF OptionsValid, TryLoad
<1>3. /\ \A s \in Present : keyring_rule_ok(key[s].kind)
      /\ \A s \in Present : key[s].kind = "wrapped" /\ key[s].live => key[s].cert \in {cur, prev} \ {Empty}
  BY <1>1 DEF StartupCheck, Unwraps
<1> QED
  BY <1>1, <1>2, <1>3 DEF DPAbsent

(* What a write does to the certificate files and to the command.          *)
LEMMA WriteEffect ==
    ASSUME TypeOK, write_atomic
    PROVE  /\ DPAbsent' => DPAbsent
           /\ job.cmd \in {"init", "add"} =>
                /\ file'["cert"] \in {file["cert"], gen[DP_LOGICAL]}
                /\ file'["certPw"] \in {file["certPw"], gen[DP_LOGICAL]}
                /\ file'["prev"] \in {file["prev"], Empty}
                /\ file'["prevPw"] = file["prevPw"] \/ (file'["prevPw"] = Empty /\ job' = Idle)
           /\ job.cmd = "rotateCert" =>
                /\ job.at \in 1 .. 4
                /\ file'["prev"] = IF job.at = 1 THEN job.old ELSE file["prev"]
                /\ file'["prevPw"] = IF job.at = 2 THEN job.oldPw ELSE file["prevPw"]
                /\ file'["cert"] = IF job.at = 3 THEN gen[DP_LOGICAL] ELSE file["cert"]
                /\ file'["certPw"] = IF job.at = 4 THEN gen[DP_LOGICAL] ELSE file["certPw"]
                /\ job' = IF job.at = 4 THEN Idle ELSE [job EXCEPT !.at = job.at + 1]
           /\ job.cmd = "retirePrev" =>
                /\ file'["cert"] = file["cert"] /\ file'["certPw"] = file["certPw"]
                /\ file'["prev"] \in {file["prev"], Empty} /\ file'["prevPw"] \in {file["prevPw"], Empty}
           /\ job.cmd \notin {"init", "add", "rotateCert", "retirePrev"} =>
                \A f \in DP_SECRETS : file'[f] = file[f]
           /\ job' = Idle \/ job' = [job EXCEPT !.at = job.at + 1]
           /\ job.cmd # "idle" /\ gen' = gen /\ forced' = forced /\ torn' = torn
<1> DEFINE w == Plan(job)[job.at]
<1>1. /\ w.name \in SECRET_FILE_NAMES /\ w.val \in Number
      /\ job.cmd \in {"init", "add"} => PlanNewWrite(w)
      /\ job.cmd = "rotateCert" => PlanRotateWrite(w)
      /\ job.cmd = "retirePrev" => w.name \in {"prev", "prevPw"} /\ w.val = Empty
      /\ job.cmd \notin {"init", "add", "rotateCert", "retirePrev"} => w.name \notin DP_SECRETS
  BY WriteFacts DEF write_atomic
<1>2. file' = [file EXCEPT ![w.name] = w.val]
  BY DEF write_atomic
<1>3. job' = IF job.at = Len(Plan(job)) THEN Idle ELSE [job EXCEPT !.at = job.at + 1]
  BY DEF write_atomic, Advance
<1>4. job.cmd # "idle" /\ gen' = gen /\ forced' = forced /\ torn' = torn
  BY DEF write_atomic, Step
<1> HIDE DEF w
<1>5. \A f \in DP_SECRETS : file'[f] = IF f = w.name THEN w.val ELSE file[f]
  BY <1>1, <1>2, Names DEF TypeOK
<1>6. DPAbsent' => DPAbsent
  BY <1>1, <1>5, NumberFacts DEF DPAbsent
<1>7. ASSUME job.cmd \in {"init", "add"}
      PROVE  /\ file'["cert"] \in {file["cert"], gen[DP_LOGICAL]}
             /\ file'["certPw"] \in {file["certPw"], gen[DP_LOGICAL]}
             /\ file'["prev"] \in {file["prev"], Empty}
             /\ file'["prevPw"] = file["prevPw"] \/ (file'["prevPw"] = Empty /\ job' = Idle)
  BY <1>1, <1>3, <1>5, <1>7 DEF PlanNewWrite, DP_SECRETS
<1>8. ASSUME job.cmd = "rotateCert"
      PROVE  /\ job.at \in 1 .. 4
             /\ file'["prev"] = IF job.at = 1 THEN job.old ELSE file["prev"]
             /\ file'["prevPw"] = IF job.at = 2 THEN job.oldPw ELSE file["prevPw"]
             /\ file'["cert"] = IF job.at = 3 THEN gen[DP_LOGICAL] ELSE file["cert"]
             /\ file'["certPw"] = IF job.at = 4 THEN gen[DP_LOGICAL] ELSE file["certPw"]
             /\ job' = IF job.at = 4 THEN Idle ELSE [job EXCEPT !.at = job.at + 1]
  BY <1>1, <1>3, <1>5, <1>8 DEF PlanRotateWrite, Write, DP_SECRETS
<1>9. ASSUME job.cmd = "retirePrev"
      PROVE  /\ file'["cert"] = file["cert"] /\ file'["certPw"] = file["certPw"]
             /\ file'["prev"] \in {file["prev"], Empty} /\ file'["prevPw"] \in {file["prevPw"], Empty}
  BY <1>1, <1>5, <1>9 DEF DP_SECRETS
<1> QED
  BY <1>1, <1>3, <1>4, <1>5, <1>6, <1>7, <1>8, <1>9

(* The certificate's counter after a generation.                           *)
LEMMA GenerateEffect ==
    ASSUME TypeOK, NEW l \in Logicals \cup {DP_LOGICAL}, Generate(l)
    PROVE  gen'[DP_LOGICAL] = IF l = DP_LOGICAL THEN gen[DP_LOGICAL] + 1 ELSE gen[DP_LOGICAL]
    BY DEF TypeOK, Generate

(* Numbers as integers.                                                    *)
LEMMA Counts ==
    ASSUME TypeOK
    PROVE  /\ gen[DP_LOGICAL] \in Nat /\ gen[DP_LOGICAL] # Absent
           /\ \A f \in DP_SECRETS : file[f] \in Int /\ file[f] >= Absent /\ (file[f] # Absent => file[f] >= 0)
<1>1. gen[DP_LOGICAL] \in Number /\ \A f \in DP_SECRETS : file[f] \in Number \/ file[f] = Absent
  BY Names DEF TypeOK, Content
<1>2. \A n \in Number : n \in Int /\ n >= 0 /\ n >= Absent /\ n # Absent
  BY KeyRingAssumption DEF Number, Absent
<1>3. Absent \in Int /\ Absent >= Absent
  BY DEF Absent
<1> QED
  BY <1>1, <1>2, <1>3, NumberFacts

(* The ring after the framework wrote a key.                               *)
LEMMA NewKey ==
    ASSUME TypeOK, NEW s \in Slots, CreateKey(s)
    PROVE  \A t \in Slots : IF t = s THEN key'[t].kind = "wrapped" /\ key'[t].cert = bff.cur ELSE key'[t] = key[t]
    BY DEF TypeOK, CreateKey

(* A wrapped key passes the rule.                                          *)
LEMMA WrappedPasses == keyring_rule_ok("wrapped")
<1>1. ~Text("wrapped").plain
  <2>1. Text("wrapped").plain = ("wrapped" \in {"clear", "nullwrapped"})
    BY Zenon DEF Text
  <2> QED
    BY <2>1
<1>2. Text("wrapped").secrets = 1
  BY DEF Text
<1>3. Text("wrapped").certDecryptor = TRUE
  BY DEF Text
<1> QED
  BY <1>1, <1>2, <1>3 DEF keyring_rule_ok

(* Every step keeps RingInv.                                               *)
LEMMA RingStep ==
    ASSUME TypeOK, RingInv, [Next]_vars
    PROVE  RingInv'
<1> USE NumberFacts, Names DEF RingInv, RunningBffReadsItsRing, Present
<1>1. ASSUME cmd_secrets_init PROVE RingInv'
  BY <1>1 DEF cmd_secrets_init, Begin, TypeOK, DPAbsent
<1>2. ASSUME cmd_secrets_add PROVE RingInv'
  BY <1>2 DEF cmd_secrets_add, Begin, TypeOK, DPAbsent
<1>3. ASSUME NEW drop \in BOOLEAN, rotate_certificate(drop) PROVE RingInv'
  BY <1>3 DEF rotate_certificate, Begin, TypeOK, DPAbsent
<1>4. ASSUME NEW l \in Logicals, NEW db \in BOOLEAN, cmd_secrets_rotate(l, db) PROVE RingInv'
  BY <1>4 DEF cmd_secrets_rotate, Begin, TypeOK, DPAbsent
<1>5. ASSUME retire_previous_certificate PROVE RingInv'
  BY <1>5 DEF retire_previous_certificate, Begin, TypeOK, DPAbsent
<1>6. ASSUME cmd_secrets_retire PROVE RingInv'
  BY <1>6 DEF cmd_secrets_retire, Begin, TypeOK, DPAbsent
<1>7. ASSUME cmd_keyring_prepare PROVE RingInv'
  BY <1>7 DEF cmd_keyring_prepare, Begin, TypeOK, DPAbsent
<1>8. ASSUME NEW all \in BOOLEAN, cmd_keyring_reset(all) PROVE RingInv'
  BY <1>8 DEF cmd_keyring_reset, Begin, TypeOK, DPAbsent
<1>9. ASSUME cmd_up PROVE RingInv'
  BY <1>9 DEF cmd_up, Begin, TypeOK, DPAbsent
<1>10. ASSUME write_atomic PROVE RingInv'
  BY <1>10, WriteEffect DEF write_atomic
<1>11. ASSUME alter_role PROVE RingInv'
  BY <1>11 DEF alter_role, TypeOK, DPAbsent
<1>12. ASSUME keyring_create PROVE RingInv'
  BY <1>12 DEF keyring_create, TypeOK, DPAbsent
<1>13. ASSUME keyring_prepare PROVE RingInv'
  BY <1>13 DEF keyring_prepare, TypeOK, DPAbsent
<1>14. ASSUME stop_bff PROVE RingInv'
  BY <1>14 DEF stop_bff, DPAbsent, Stopped
<1>15. ASSUME keyring_delete PROVE RingInv'
  BY <1>15 DEF keyring_delete, TypeOK, DPAbsent, NoKey
<1>16. ASSUME compose_up PROVE RingInv'
  BY <1>16, StartedFacts DEF compose_up, DPAbsent
<1>17. ASSUME StepFails PROVE RingInv'
  BY <1>17 DEF StepFails, TypeOK, DPAbsent
<1>18. ASSUME Interrupted PROVE RingInv'
  BY <1>18 DEF Interrupted, TypeOK, DPAbsent
<1>19. ASSUME RestartBff PROVE RingInv'
  BY <1>19, StartedFacts DEF RestartBff, DPAbsent
<1>20. ASSUME StopBff PROVE RingInv'
  BY <1>20 DEF StopBff, DPAbsent, Stopped
<1>21. ASSUME NEW s \in Slots, CreateKey(s) PROVE RingInv'
  <2>1. bff.up /\ bff' = bff /\ file' = file
    BY <1>21 DEF CreateKey
  <2>2. bff.cur # Empty /\ ~DPAbsent'
    BY <2>1 DEF DPAbsent
  <2> QED
    BY <1>21, <2>1, <2>2, NewKey, WrappedPasses
<1>22. ASSUME NEW s \in Slots, ExpireKey(s) PROVE RingInv'
  BY <1>22 DEF ExpireKey, TypeOK, DPAbsent
<1>23. ASSUME RemoveHalfWritten PROVE RingInv'
  BY <1>23 DEF RemoveHalfWritten, TypeOK, DPAbsent
<1>24. ASSUME RemoveVolume PROVE RingInv'
  BY <1>24 DEF RemoveVolume, TypeOK, DPAbsent, NoKey
<1>25. ASSUME UNCHANGED vars PROVE RingInv'
  BY <1>25 DEF vars, DPAbsent
<1> QED
  BY <1>1, <1>2, <1>3, <1>4, <1>5, <1>6, <1>7, <1>8, <1>9, <1>10, <1>11, <1>12,
     <1>13, <1>14, <1>15, <1>16, <1>17, <1>18, <1>19, <1>20, <1>21, <1>22, <1>23, <1>24,
     <1>25 DEF Next

(* Every step keeps PasswordInv.                                           *)
LEMMA PasswordStep ==
    ASSUME TypeOK, PasswordInv, PhaseInv, [Next]_vars
    PROVE  PasswordInv'
<1> USE NumberFacts, Names DEF PasswordInv
<1>1. ASSUME cmd_secrets_init PROVE PasswordInv'
  <2>1. gen'[DP_LOGICAL] = gen[DP_LOGICAL] + 1 /\ file' = file
    BY <1>1 DEF cmd_secrets_init, TypeOK
  <2> QED
    BY <2>1, Counts
<1>2. ASSUME cmd_secrets_add PROVE PasswordInv'
  <2>1. gen'[DP_LOGICAL] >= gen[DP_LOGICAL] /\ gen'[DP_LOGICAL] \in Nat /\ file' = file
    BY <1>2, GenerateEffect, Counts DEF cmd_secrets_add
  <2> QED
    BY <2>1, Counts
<1>3. ASSUME NEW drop \in BOOLEAN, rotate_certificate(drop) PROVE PasswordInv'
  <2>1. gen'[DP_LOGICAL] >= gen[DP_LOGICAL] /\ gen'[DP_LOGICAL] \in Nat /\ file' = file
    BY <1>3, GenerateEffect, Counts DEF rotate_certificate
  <2> QED
    BY <2>1, Counts
<1>4. ASSUME NEW l \in Logicals, NEW db \in BOOLEAN, cmd_secrets_rotate(l, db) PROVE PasswordInv'
  <2>1. gen'[DP_LOGICAL] >= gen[DP_LOGICAL] /\ gen'[DP_LOGICAL] \in Nat /\ file' = file
    BY <1>4, GenerateEffect, Counts DEF cmd_secrets_rotate
  <2> QED
    BY <2>1, Counts
<1>5. ASSUME retire_previous_certificate PROVE PasswordInv'
  BY <1>5 DEF retire_previous_certificate, Begin, TypeOK, DP_SECRETS
<1>6. ASSUME cmd_secrets_retire PROVE PasswordInv'
  BY <1>6 DEF cmd_secrets_retire, Begin, TypeOK, DP_SECRETS
<1>7. ASSUME cmd_keyring_prepare PROVE PasswordInv'
  BY <1>7 DEF cmd_keyring_prepare, Begin, TypeOK, DP_SECRETS
<1>8. ASSUME NEW all \in BOOLEAN, cmd_keyring_reset(all) PROVE PasswordInv'
  BY <1>8 DEF cmd_keyring_reset, Begin, TypeOK, DP_SECRETS
<1>9. ASSUME cmd_up PROVE PasswordInv'
  BY <1>9 DEF cmd_up, Begin, TypeOK, DP_SECRETS
<1>10. ASSUME write_atomic PROVE PasswordInv'
  <2>0. gen' = gen /\ job.cmd # "idle"
    BY <1>10, WriteEffect
  <2>1. CASE job.cmd \in {"init", "add"}
    BY <1>10, <2>0, <2>1, WriteEffect, Counts DEF PhaseInv, DP_SECRETS, Absent, Empty
  <2>2. CASE job.cmd = "rotateCert"
    <3> USE DEF DP_SECRETS, Absent, Empty
    <3>1. CASE job.at = 1
      BY <1>10, <2>0, <2>2, <3>1, WriteEffect, Counts DEF PhaseInv
    <3>2. CASE job.at = 2
      BY <1>10, <2>0, <2>2, <3>2, WriteEffect, Counts DEF PhaseInv
    <3>3. CASE job.at = 3
      BY <1>10, <2>0, <2>2, <3>3, WriteEffect, Counts DEF PhaseInv
    <3>4. CASE job.at = 4
      BY <1>10, <2>0, <2>2, <3>4, WriteEffect, Counts DEF PhaseInv
    <3> QED
      BY <1>10, <2>2, <3>1, <3>2, <3>3, <3>4, WriteEffect
  <2>3. CASE job.cmd = "retirePrev"
    BY <1>10, <2>0, <2>3, WriteEffect, Counts DEF DP_SECRETS, Absent, Empty
  <2>4. CASE job.cmd \notin {"init", "add", "rotateCert", "retirePrev"}
    BY <1>10, <2>0, <2>4, WriteEffect DEF DP_SECRETS
  <2> QED
    BY <2>1, <2>2, <2>3, <2>4
<1>11. ASSUME alter_role PROVE PasswordInv'
  BY <1>11 DEF alter_role, TypeOK, DP_SECRETS
<1>12. ASSUME keyring_create PROVE PasswordInv'
  BY <1>12 DEF keyring_create, TypeOK, DP_SECRETS
<1>13. ASSUME keyring_prepare PROVE PasswordInv'
  BY <1>13 DEF keyring_prepare, TypeOK, DP_SECRETS
<1>14. ASSUME stop_bff PROVE PasswordInv'
  BY <1>14 DEF stop_bff, TypeOK, DP_SECRETS
<1>15. ASSUME keyring_delete PROVE PasswordInv'
  BY <1>15 DEF keyring_delete, TypeOK, DP_SECRETS
<1>16. ASSUME compose_up PROVE PasswordInv'
  BY <1>16 DEF compose_up, TypeOK, DP_SECRETS
<1>17. ASSUME StepFails PROVE PasswordInv'
  BY <1>17 DEF StepFails, TypeOK, DP_SECRETS
<1>18. ASSUME Interrupted PROVE PasswordInv'
  BY <1>18 DEF Interrupted, TypeOK, DP_SECRETS
<1>19. ASSUME RestartBff PROVE PasswordInv'
  BY <1>19 DEF RestartBff, TypeOK, DP_SECRETS
<1>20. ASSUME StopBff PROVE PasswordInv'
  BY <1>20 DEF StopBff, TypeOK, DP_SECRETS
<1>21. ASSUME NEW s \in Slots, CreateKey(s) PROVE PasswordInv'
  BY <1>21 DEF CreateKey, TypeOK, DP_SECRETS
<1>22. ASSUME NEW s \in Slots, ExpireKey(s) PROVE PasswordInv'
  BY <1>22 DEF ExpireKey, TypeOK, DP_SECRETS
<1>23. ASSUME RemoveHalfWritten PROVE PasswordInv'
  BY <1>23 DEF RemoveHalfWritten, TypeOK, DP_SECRETS
<1>24. ASSUME RemoveVolume PROVE PasswordInv'
  BY <1>24 DEF RemoveVolume, TypeOK, DP_SECRETS
<1>25. ASSUME UNCHANGED vars PROVE PasswordInv'
  BY <1>25 DEF vars
<1> QED
  BY <1>1, <1>2, <1>3, <1>4, <1>5, <1>6, <1>7, <1>8, <1>9, <1>10, <1>11, <1>12,
     <1>13, <1>14, <1>15, <1>16, <1>17, <1>18, <1>19, <1>20, <1>21, <1>22, <1>23, <1>24,
     <1>25 DEF Next

(* What rotate_certificate finds and sets up.                              *)
LEMMA RotateBegins ==
    ASSUME TypeOK, NEW drop \in BOOLEAN, rotate_certificate(drop)
    PROVE  /\ file' = file /\ ~DPAbsent /\ job'.cmd = "rotateCert" /\ job'.at = 1 /\ job.cmd = "idle"
           /\ job'.old = file["cert"] /\ job'.oldPw = file["certPw"]
           /\ file["cert"] # Empty /\ file["certPw"] # Empty
           /\ gen'[DP_LOGICAL] = gen[DP_LOGICAL] + 1
           /\ forced' = (forced \/ (file["prev"] \notin {Empty, file["cert"]} /\ Needed(file["prev"])))
           /\ torn' = torn /\ key' = key /\ bff' = bff
    BY GenerateEffect DEF rotate_certificate, Begin, shape_ok, DPAbsent, DP_SECRETS

(* A step that is no write belongs to a command that leaves the            *)
(* certificates alone.                                                     *)
LEMMA QuietAdvance ==
    ASSUME TypeOK, job.cmd # "idle", Plan(job)[job.at].op # "write", Advance
    PROVE  /\ job.cmd \in {"rotateDb", "prepare", "reset", "resetAll", "up"}
           /\ job'.cmd \in {job.cmd, "idle"}
    BY OtherFacts, AdvanceKeepsCmd

(* Every step keeps PhaseInv.                                              *)
LEMMA PhaseStep ==
    ASSUME TypeOK, PasswordInv, PhaseInv, [Next]_vars
    PROVE  PhaseInv'
<1> USE NumberFacts, Names DEF PhaseInv
<1>1. ASSUME cmd_secrets_init PROVE PhaseInv'
  <2>1. gen'[DP_LOGICAL] = gen[DP_LOGICAL] + 1 /\ file' = file /\ job'.cmd = "init"
    BY <1>1 DEF cmd_secrets_init, TypeOK, Begin
  <2>2. \A f \in DP_SECRETS : file[f] = Absent
    BY <1>1, Names DEF cmd_secrets_init
  <2> QED
    BY <2>1, <2>2, Counts DEF DP_SECRETS, Empty
<1>2. ASSUME cmd_secrets_add PROVE PhaseInv'
  <2>1. gen'[DP_LOGICAL] = gen[DP_LOGICAL] + 1 /\ file' = file /\ job'.cmd = "add"
    BY <1>2, GenerateEffect DEF cmd_secrets_add, Begin
  <2>2. \A f \in DP_SECRETS : file[f] = Absent
    BY <1>2 DEF cmd_secrets_add
  <2> QED
    BY <2>1, <2>2, Counts DEF DP_SECRETS, Empty
<1>3. ASSUME NEW drop \in BOOLEAN, rotate_certificate(drop) PROVE PhaseInv'
  <2>1. /\ file["cert"] \in 1 .. gen[DP_LOGICAL] /\ file["certPw"] \in 1 .. gen[DP_LOGICAL]
        /\ file["prev"] <= gen[DP_LOGICAL] /\ file["prevPw"] <= gen[DP_LOGICAL]
        /\ file["prev"] \in Int /\ file["prevPw"] \in Int
    BY <1>3, RotateBegins, Counts DEF PasswordInv, DP_SECRETS, DPAbsent, Empty
  <2>2. ~DPAbsent'
    BY <1>3, RotateBegins DEF DPAbsent
  <2> QED
    BY <1>3, <2>1, <2>2, RotateBegins, Counts
<1>4. ASSUME NEW l \in Logicals, NEW db \in BOOLEAN, cmd_secrets_rotate(l, db) PROVE PhaseInv'
  BY <1>4 DEF cmd_secrets_rotate, Begin
<1>5. ASSUME retire_previous_certificate PROVE PhaseInv'
  BY <1>5 DEF retire_previous_certificate, Begin
<1>6. ASSUME cmd_secrets_retire PROVE PhaseInv'
  BY <1>6 DEF cmd_secrets_retire, Begin
<1>7. ASSUME cmd_keyring_prepare PROVE PhaseInv'
  BY <1>7 DEF cmd_keyring_prepare, Begin
<1>8. ASSUME NEW all \in BOOLEAN, cmd_keyring_reset(all) PROVE PhaseInv'
  BY <1>8 DEF cmd_keyring_reset, Begin
<1>9. ASSUME cmd_up PROVE PhaseInv'
  BY <1>9 DEF cmd_up, Begin
<1>10. ASSUME write_atomic PROVE PhaseInv'
  <2>0. gen' = gen /\ job.cmd # "idle" /\ (DPAbsent' => DPAbsent) /\ job'.cmd \in {job.cmd, "idle"}
    BY <1>10, WriteEffect, AdvanceKeepsCmd DEF write_atomic
  <2>1. CASE job.cmd \in {"init", "add"}
    BY <1>10, <2>0, <2>1, WriteEffect DEF Idle
  <2>2. CASE job.cmd = "rotateCert"
    <3>1. CASE job.at = 4
      BY <1>10, <2>2, <3>1, WriteEffect DEF Idle
    <3>2. CASE job.at \in 1 .. 3
      <4>1. /\ job'.cmd = "rotateCert" /\ job'.old = job.old /\ job'.oldPw = job.oldPw
            /\ job'.at = job.at + 1
        BY <1>10, <2>2, <3>2, WriteEffect DEF TypeOK
      <4> QED
        BY <1>10, <2>0, <2>2, <3>2, <4>1, WriteEffect, Counts
    <3> QED
      BY <1>10, <2>2, <3>1, <3>2, WriteEffect
  <2>3. CASE job.cmd = "retirePrev"
    BY <1>10, <2>0, <2>3, WriteEffect
  <2>4. CASE job.cmd \notin {"init", "add", "rotateCert", "retirePrev"}
    BY <2>0, <2>4
  <2> QED
    BY <2>1, <2>2, <2>3, <2>4
<1>11. ASSUME alter_role PROVE PhaseInv'
  <2>1. job'.cmd \in {"rotateDb", "prepare", "reset", "resetAll", "up", "idle"}
    BY <1>11, QuietAdvance DEF alter_role, Step
  <2> QED
    BY <2>1
<1>12. ASSUME keyring_create PROVE PhaseInv'
  <2>1. job'.cmd \in {"rotateDb", "prepare", "reset", "resetAll", "up", "idle"}
    BY <1>12, QuietAdvance DEF keyring_create, Step
  <2> QED
    BY <2>1
<1>13. ASSUME keyring_prepare PROVE PhaseInv'
  <2>1. job'.cmd \in {"rotateDb", "prepare", "reset", "resetAll", "up", "idle"}
    BY <1>13, QuietAdvance DEF keyring_prepare, Step
  <2> QED
    BY <2>1
<1>14. ASSUME stop_bff PROVE PhaseInv'
  <2>1. job'.cmd \in {"rotateDb", "prepare", "reset", "resetAll", "up", "idle"}
    BY <1>14, QuietAdvance DEF stop_bff, Step
  <2> QED
    BY <2>1
<1>15. ASSUME keyring_delete PROVE PhaseInv'
  <2>1. job'.cmd \in {"rotateDb", "prepare", "reset", "resetAll", "up", "idle"}
    BY <1>15, QuietAdvance DEF keyring_delete, Step
  <2> QED
    BY <2>1
<1>16. ASSUME compose_up PROVE PhaseInv'
  <2>1. job'.cmd \in {"rotateDb", "prepare", "reset", "resetAll", "up", "idle"}
    BY <1>16, QuietAdvance DEF compose_up, Step
  <2> QED
    BY <2>1
<1>17. ASSUME StepFails PROVE PhaseInv'
  BY <1>17 DEF StepFails, Idle
<1>18. ASSUME Interrupted PROVE PhaseInv'
  BY <1>18 DEF Interrupted, Idle
<1>19. ASSUME RestartBff PROVE PhaseInv'
  BY <1>19 DEF RestartBff, DPAbsent, Idle
<1>20. ASSUME StopBff PROVE PhaseInv'
  BY <1>20 DEF StopBff, DPAbsent, Idle
<1>21. ASSUME NEW s \in Slots, CreateKey(s) PROVE PhaseInv'
  BY <1>21 DEF CreateKey, DPAbsent, Idle
<1>22. ASSUME NEW s \in Slots, ExpireKey(s) PROVE PhaseInv'
  BY <1>22 DEF ExpireKey, DPAbsent, Idle
<1>23. ASSUME RemoveHalfWritten PROVE PhaseInv'
  BY <1>23 DEF RemoveHalfWritten
<1>24. ASSUME RemoveVolume PROVE PhaseInv'
  BY <1>24 DEF RemoveVolume, DPAbsent, Idle
<1>25. ASSUME UNCHANGED vars PROVE PhaseInv'
  BY <1>25 DEF vars, DPAbsent
<1> QED
  BY <1>1, <1>2, <1>3, <1>4, <1>5, <1>6, <1>7, <1>8, <1>9, <1>10, <1>11, <1>12,
     <1>13, <1>14, <1>15, <1>16, <1>17, <1>18, <1>19, <1>20, <1>21, <1>22, <1>23, <1>24,
     <1>25 DEF Next

(* Every step keeps TornInv.                                               *)
LEMMA TornStep ==
    ASSUME TypeOK, PhaseInv, TornInv, [Next]_vars
    PROVE  TornInv'
<1> USE DEF TornInv
<1>1. ASSUME cmd_secrets_init PROVE TornInv'
  BY <1>1 DEF cmd_secrets_init, Begin, DPAbsent
<1>2. ASSUME cmd_secrets_add PROVE TornInv'
  BY <1>2 DEF cmd_secrets_add, Begin, DPAbsent
<1>3. ASSUME NEW drop \in BOOLEAN, rotate_certificate(drop) PROVE TornInv'
  <2>1. DPAbsent' <=> DPAbsent
    BY <1>3, RotateBegins DEF DPAbsent
  <2> QED
    BY <1>3, <2>1, RotateBegins
<1>4. ASSUME NEW l \in Logicals, NEW db \in BOOLEAN, cmd_secrets_rotate(l, db) PROVE TornInv'
  BY <1>4 DEF cmd_secrets_rotate, Begin, DPAbsent
<1>5. ASSUME retire_previous_certificate PROVE TornInv'
  BY <1>5 DEF retire_previous_certificate, Begin, DPAbsent
<1>6. ASSUME cmd_secrets_retire PROVE TornInv'
  BY <1>6 DEF cmd_secrets_retire, Begin, DPAbsent
<1>7. ASSUME cmd_keyring_prepare PROVE TornInv'
  BY <1>7 DEF cmd_keyring_prepare, Begin, DPAbsent
<1>8. ASSUME NEW all \in BOOLEAN, cmd_keyring_reset(all) PROVE TornInv'
  BY <1>8 DEF cmd_keyring_reset, Begin, DPAbsent
<1>9. ASSUME cmd_up PROVE TornInv'
  BY <1>9 DEF cmd_up, Begin, DPAbsent
<1>10. ASSUME write_atomic PROVE TornInv'
  <2>0. /\ gen' = gen /\ torn' = torn /\ job.cmd # "idle" /\ (DPAbsent' => DPAbsent)
        /\ job'.cmd \in {job.cmd, "idle"}
    BY <1>10, WriteEffect, AdvanceKeepsCmd DEF write_atomic
  <2>1. CASE job.cmd \in {"init", "add"}
    <3>1. /\ file'["cert"] \in {Absent, gen[DP_LOGICAL]}
          /\ file'["certPw"] \in {Absent, gen[DP_LOGICAL]}
          /\ file'["prev"] \in {Absent, Empty} /\ file'["prevPw"] \in {Absent, Empty}
      BY <1>10, <2>1, WriteEffect DEF PhaseInv
    <3>2. ~DPAbsent' => /\ file'["cert"] # Absent /\ file'["certPw"] # Absent
                       /\ file'["prev"] # Absent /\ file'["prevPw"] # Absent
      BY DEF DPAbsent, DP_SECRETS
    <3> QED
      BY <2>0, <2>1, <3>1, <3>2
  <2>2. CASE job.cmd = "rotateCert"
    <3>1. CASE job.at = 4
      BY <1>10, <2>0, <2>2, <3>1, WriteEffect DEF Idle, PhaseInv
    <3>2. CASE job.at \in 1 .. 3
      <4>1. /\ job'.cmd = "rotateCert" /\ job'.old = job.old /\ job'.oldPw = job.oldPw
            /\ job'.at = job.at + 1
        BY <1>10, <2>2, <3>2, WriteEffect DEF TypeOK
      <4> QED
        BY <1>10, <2>0, <2>2, <3>2, <4>1, WriteEffect, Counts DEF PhaseInv
    <3> QED
      BY <1>10, <2>2, <3>1, <3>2, WriteEffect
  <2>3. CASE job.cmd = "retirePrev"
    <3>1. DPAbsent => DPAbsent'
      BY <1>10, <2>3, WriteEffect DEF DPAbsent, DP_SECRETS, PhaseInv
    <3> QED
      BY <1>10, <2>0, <2>3, <3>1, WriteEffect
  <2>4. CASE job.cmd \notin {"init", "add", "rotateCert", "retirePrev"}
    <3>1. \A f \in DP_SECRETS : file'[f] = file[f]
      BY <1>10, <2>4, WriteEffect
    <3>2. DPAbsent => DPAbsent'
      BY <3>1 DEF DPAbsent
    <3> QED
      BY <2>0, <2>4, <3>1, <3>2 DEF DP_SECRETS
  <2> QED
    BY <2>1, <2>2, <2>3, <2>4
<1>11. ASSUME alter_role PROVE TornInv'
  <2>1. /\ job'.cmd \in {"rotateDb", "prepare", "reset", "resetAll", "up", "idle"}
        /\ job.cmd # "rotateCert"
    BY <1>11, QuietAdvance DEF alter_role, Step
  <2> QED
    BY <1>11, <2>1 DEF alter_role, DPAbsent
<1>12. ASSUME keyring_create PROVE TornInv'
  <2>1. /\ job'.cmd \in {"rotateDb", "prepare", "reset", "resetAll", "up", "idle"}
        /\ job.cmd # "rotateCert"
    BY <1>12, QuietAdvance DEF keyring_create, Step
  <2> QED
    BY <1>12, <2>1 DEF keyring_create, DPAbsent
<1>13. ASSUME keyring_prepare PROVE TornInv'
  <2>1. /\ job'.cmd \in {"rotateDb", "prepare", "reset", "resetAll", "up", "idle"}
        /\ job.cmd # "rotateCert"
    BY <1>13, QuietAdvance DEF keyring_prepare, Step
  <2> QED
    BY <1>13, <2>1 DEF keyring_prepare, DPAbsent
<1>14. ASSUME stop_bff PROVE TornInv'
  <2>1. /\ job'.cmd \in {"rotateDb", "prepare", "reset", "resetAll", "up", "idle"}
        /\ job.cmd # "rotateCert"
    BY <1>14, QuietAdvance DEF stop_bff, Step
  <2> QED
    BY <1>14, <2>1 DEF stop_bff, DPAbsent
<1>15. ASSUME keyring_delete PROVE TornInv'
  <2>1. /\ job'.cmd \in {"rotateDb", "prepare", "reset", "resetAll", "up", "idle"}
        /\ job.cmd # "rotateCert"
    BY <1>15, QuietAdvance DEF keyring_delete, Step
  <2> QED
    BY <1>15, <2>1 DEF keyring_delete, DPAbsent
<1>16. ASSUME compose_up PROVE TornInv'
  <2>1. /\ job'.cmd \in {"rotateDb", "prepare", "reset", "resetAll", "up", "idle"}
        /\ job.cmd # "rotateCert"
    BY <1>16, QuietAdvance DEF compose_up, Step
  <2> QED
    BY <1>16, <2>1 DEF compose_up, DPAbsent
<1>17. ASSUME StepFails PROVE TornInv'
  <2>1. job.cmd # "rotateCert" /\ job'.cmd # "rotateCert"
    BY <1>17, OtherFacts DEF StepFails, Idle
  <2> QED
    BY <1>17, <2>1 DEF StepFails, DPAbsent
<1>18. ASSUME Interrupted PROVE TornInv'
  BY <1>18 DEF Interrupted, Idle, DPAbsent
<1>19. ASSUME RestartBff PROVE TornInv'
  BY <1>19 DEF RestartBff, DPAbsent
<1>20. ASSUME StopBff PROVE TornInv'
  BY <1>20 DEF StopBff, DPAbsent
<1>21. ASSUME NEW s \in Slots, CreateKey(s) PROVE TornInv'
  BY <1>21 DEF CreateKey, DPAbsent
<1>22. ASSUME NEW s \in Slots, ExpireKey(s) PROVE TornInv'
  BY <1>22 DEF ExpireKey, DPAbsent
<1>23. ASSUME RemoveHalfWritten PROVE TornInv'
  <2>1. \A f \in DP_SECRETS : file'[f] = Absent
    BY <1>23, Names DEF RemoveHalfWritten
  <2>2. DPAbsent'
    BY <2>1 DEF DPAbsent, DP_SECRETS
  <2> QED
    BY <1>23, <2>2 DEF RemoveHalfWritten
<1>24. ASSUME RemoveVolume PROVE TornInv'
  BY <1>24 DEF RemoveVolume, DPAbsent
<1>25. ASSUME UNCHANGED vars PROVE TornInv'
  BY <1>25 DEF vars, DPAbsent
<1> QED
  BY <1>1, <1>2, <1>3, <1>4, <1>5, <1>6, <1>7, <1>8, <1>9, <1>10, <1>11, <1>12,
     <1>13, <1>14, <1>15, <1>16, <1>17, <1>18, <1>19, <1>20, <1>21, <1>22, <1>23, <1>24,
     <1>25 DEF Next

(* The current pair is certificate c.                                      *)
Loaded(c) == ~DPAbsent /\ file["cert"] = c /\ file["certPw"] = c

(* A certificate becomes needed only when a BFF starts with it.            *)
NeededEffect(c) ==
    Needed(c)' => \/ Needed(c)
                  \/ Loaded(c) /\ file' = file /\ forced' = forced /\ (job' = job \/ compose_up)

(* Every step is as NeededEffect says.                                     *)
LEMMA NeededStep ==
    ASSUME TypeOK, NEW c, [Next]_vars
    PROVE  NeededEffect(c)
<1> USE DEF NeededEffect, Needed, Present
<1>1. ASSUME cmd_secrets_init PROVE NeededEffect(c)
  BY <1>1 DEF cmd_secrets_init, Begin
<1>2. ASSUME cmd_secrets_add PROVE NeededEffect(c)
  BY <1>2 DEF cmd_secrets_add, Begin
<1>3. ASSUME NEW drop \in BOOLEAN, rotate_certificate(drop) PROVE NeededEffect(c)
  BY <1>3 DEF rotate_certificate, Begin
<1>4. ASSUME NEW l \in Logicals, NEW db \in BOOLEAN, cmd_secrets_rotate(l, db) PROVE NeededEffect(c)
  BY <1>4 DEF cmd_secrets_rotate, Begin
<1>5. ASSUME retire_previous_certificate PROVE NeededEffect(c)
  BY <1>5 DEF retire_previous_certificate, Begin
<1>6. ASSUME cmd_secrets_retire PROVE NeededEffect(c)
  BY <1>6 DEF cmd_secrets_retire, Begin
<1>7. ASSUME cmd_keyring_prepare PROVE NeededEffect(c)
  BY <1>7 DEF cmd_keyring_prepare, Begin
<1>8. ASSUME NEW all \in BOOLEAN, cmd_keyring_reset(all) PROVE NeededEffect(c)
  BY <1>8 DEF cmd_keyring_reset, Begin
<1>9. ASSUME cmd_up PROVE NeededEffect(c)
  BY <1>9 DEF cmd_up, Begin
<1>10. ASSUME write_atomic PROVE NeededEffect(c)
  BY <1>10 DEF write_atomic
<1>11. ASSUME alter_role PROVE NeededEffect(c)
  BY <1>11 DEF alter_role
<1>12. ASSUME keyring_create PROVE NeededEffect(c)
  BY <1>12 DEF keyring_create
<1>13. ASSUME keyring_prepare PROVE NeededEffect(c)
  BY <1>13 DEF keyring_prepare
<1>14. ASSUME stop_bff PROVE NeededEffect(c)
  BY <1>14 DEF stop_bff, Stopped
<1>15. ASSUME keyring_delete PROVE NeededEffect(c)
  BY <1>15 DEF keyring_delete, NoKey
<1>16. ASSUME compose_up PROVE NeededEffect(c)
  BY <1>16, StartedFacts DEF compose_up, Loaded
<1>17. ASSUME StepFails PROVE NeededEffect(c)
  BY <1>17 DEF StepFails
<1>18. ASSUME Interrupted PROVE NeededEffect(c)
  BY <1>18 DEF Interrupted
<1>19. ASSUME RestartBff PROVE NeededEffect(c)
  BY <1>19, StartedFacts DEF RestartBff, Loaded
<1>20. ASSUME StopBff PROVE NeededEffect(c)
  BY <1>20 DEF StopBff, Stopped
<1>21. ASSUME NEW s \in Slots, CreateKey(s) PROVE NeededEffect(c)
  <2>1. bff.up /\ bff' = bff
    BY <1>21 DEF CreateKey
  <2> QED
    BY <1>21, <2>1, NewKey
<1>22. ASSUME NEW s \in Slots, ExpireKey(s) PROVE NeededEffect(c)
  BY <1>22 DEF ExpireKey, TypeOK
<1>23. ASSUME RemoveHalfWritten PROVE NeededEffect(c)
  BY <1>23 DEF RemoveHalfWritten
<1>24. ASSUME RemoveVolume PROVE NeededEffect(c)
  BY <1>24 DEF RemoveVolume, NoKey
<1>25. ASSUME UNCHANGED vars PROVE NeededEffect(c)
  BY <1>25 DEF vars
<1> QED
  BY <1>1, <1>2, <1>3, <1>4, <1>5, <1>6, <1>7, <1>8, <1>9, <1>10, <1>11, <1>12,
     <1>13, <1>14, <1>15, <1>16, <1>17, <1>18, <1>19, <1>20, <1>21, <1>22, <1>23, <1>24,
     <1>25 DEF Next

(* A held certificate can be opened now.                                   *)
LEMMA HeldOpens ==
    ASSUME PhaseInv, NEW c, Held(c)
    PROVE  Opens(c) /\ ~DPAbsent
    BY DEF PhaseInv, Held, Opens

(* A step that changes neither the certificate files nor the rotation      *)
(* keeps what is held.                                                     *)
LEMMA HeldSame ==
    ASSUME PhaseInv, NEW c, Held(c), \A f \in DP_SECRETS : file'[f] = file[f],
           job' = job \/ job'.cmd \notin {"rotateCert", "retirePrev"}
    PROVE  Held(c)'
<1>1. ~DPAbsent' /\ Opens(c) /\ Opens(c)'
  BY HeldOpens DEF DPAbsent, Opens, DP_SECRETS
<1>2. file'["cert"] = file["cert"] /\ file'["certPw"] = file["certPw"]
  BY DEF DP_SECRETS
<1> QED
  BY <1>1, <1>2 DEF Held

(* The certificate a BFF starts with is held.                              *)
LEMMA LoadedSame ==
    ASSUME TypeOK, PhaseInv, NEW c, Loaded(c), file' = file,
           job' = job \/ job'.cmd \notin {"rotateCert", "retirePrev"}
    PROVE  Held(c)'
<1>1. ~DPAbsent' /\ Opens(c)'
  BY DEF Loaded, DPAbsent, Opens
<1>2. CASE job'.cmd = "rotateCert"
  BY <1>1, <1>2, Counts DEF Loaded, PhaseInv, Held
<1>3. CASE job'.cmd # "rotateCert"
  BY <1>1, <1>3 DEF Loaded, Held
<1> QED
  BY <1>2, <1>3

(* What is needed is a certificate.                                        *)
LEMMA NeededNotEmpty ==
    ASSUME TypeOK, RingInv, NEW c, Needed(c)
    PROVE  c # Empty
    BY DEF RingInv, Needed, Present

(* A certificate that opens, and is not the previous one that is given up, *)
(* is the current one.                                                     *)
LEMMA CurrentOpens ==
    ASSUME TypeOK, PasswordInv, NEW c, c # Empty, ~DPAbsent, Opens(c),
           file["prev"] \in {Empty, file["cert"]} \/ c # file["prev"]
    PROVE  file["cert"] = c /\ file["certPw"] = c
<1>1. file["cert"] # Absent
  BY DEF DPAbsent, DP_SECRETS
<1> QED
  BY <1>1 DEF Opens, PasswordInv

(* Every step keeps HeldInv.                                               *)
LEMMA HeldStep ==
    ASSUME TypeOK, RingInv, PasswordInv, PhaseInv, HeldInv, [Next]_vars
    PROVE  HeldInv'
<1>1. ASSUME cmd_secrets_init PROVE HeldInv'
  <2> SUFFICES ASSUME ~forced', NEW c \in Number, Needed(c)' PROVE Held(c)'
    BY DEF HeldInv
  <2>1. DPAbsent
    BY <1>1, Names DEF cmd_secrets_init, DPAbsent, DP_SECRETS
  <2>2. Needed(c)
    BY <1>1, <2>1, NeededStep DEF NeededEffect, Loaded
  <2>3. forced' = forced
    BY <1>1 DEF cmd_secrets_init
  <2> QED
    BY <2>1, <2>2, <2>3, HeldOpens DEF HeldInv
<1>2. ASSUME cmd_secrets_add PROVE HeldInv'
  <2> SUFFICES ASSUME ~forced', NEW c \in Number, Needed(c)' PROVE Held(c)'
    BY DEF HeldInv
  <2>1. DPAbsent
    BY <1>2, Names DEF cmd_secrets_add, DPAbsent, DP_SECRETS
  <2>2. Needed(c)
    BY <1>2, <2>1, NeededStep DEF NeededEffect, Loaded
  <2>3. forced' = forced
    BY <1>2 DEF cmd_secrets_add
  <2> QED
    BY <2>1, <2>2, <2>3, HeldOpens DEF HeldInv
<1>3. ASSUME NEW drop \in BOOLEAN, rotate_certificate(drop) PROVE HeldInv'
  <2> SUFFICES ASSUME ~forced', NEW c \in Number, Needed(c)' PROVE Held(c)'
    BY DEF HeldInv
  <2>1. Needed(c)' <=> Needed(c)
    BY <1>3, RotateBegins DEF Needed, Present
  <2>2. ~forced /\ Held(c) /\ c # Empty
    BY <1>3, <2>1, RotateBegins, NeededNotEmpty DEF HeldInv
  <2>3. file["prev"] \in {Empty, file["cert"]} \/ c # file["prev"]
    BY <1>3, <2>1, RotateBegins
  <2>4. file["cert"] = c /\ file["certPw"] = c
    BY <2>2, <2>3, HeldOpens, CurrentOpens
  <2>5. ~DPAbsent'
    BY <1>3, RotateBegins DEF DPAbsent
  <2> QED
    BY <1>3, <2>4, <2>5, RotateBegins DEF Held
<1>4. ASSUME NEW l \in Logicals, NEW db \in BOOLEAN, cmd_secrets_rotate(l, db) PROVE HeldInv'
  <2> SUFFICES ASSUME ~forced', NEW c \in Number, Needed(c)' PROVE Held(c)'
    BY DEF HeldInv
  <2>1. Needed(c) \/ (Loaded(c) /\ file' = file /\ forced' = forced /\ (job' = job \/ compose_up))
    BY NeededStep DEF NeededEffect
  <2>2. /\ file' = file /\ forced' = forced
        /\ (job' = job \/ job'.cmd \notin {"rotateCert", "retirePrev"})
    BY <1>4 DEF cmd_secrets_rotate, Begin
  <2>3. Needed(c) => Held(c)
    BY <2>2 DEF HeldInv
  <2> QED
    BY <2>1, <2>2, <2>3, HeldSame, LoadedSame
<1>5. ASSUME retire_previous_certificate PROVE HeldInv'
  <2> SUFFICES ASSUME ~forced', NEW c \in Number, Needed(c)' PROVE Held(c)'
    BY DEF HeldInv
  <2>0. /\ forced' = (forced \/ (file["prev"] \notin {Empty, file["cert"]} /\ Needed(file["prev"])))
        /\ file' = file /\ key' = key /\ bff' = bff /\ job'.cmd = "retirePrev"
    BY <1>5 DEF retire_previous_certificate, Begin
  <2>1. Needed(c)' <=> Needed(c)
    BY <2>0 DEF Needed, Present
  <2>2. ~forced /\ Held(c) /\ c # Empty
    BY <2>0, <2>1, NeededNotEmpty DEF HeldInv
  <2>3. file["prev"] \in {Empty, file["cert"]} \/ c # file["prev"]
    BY <2>0, <2>1
  <2>4. ~DPAbsent /\ file["cert"] = c /\ file["certPw"] = c
    BY <2>2, <2>3, HeldOpens, CurrentOpens
  <2>5. ~DPAbsent'
    BY <2>0, <2>4 DEF DPAbsent
  <2> QED
    BY <2>0, <2>4, <2>5 DEF Held
<1>6. ASSUME cmd_secrets_retire PROVE HeldInv'
  <2> SUFFICES ASSUME ~forced', NEW c \in Number, Needed(c)' PROVE Held(c)'
    BY DEF HeldInv
  <2>1. Needed(c) \/ (Loaded(c) /\ file' = file /\ forced' = forced /\ (job' = job \/ compose_up))
    BY NeededStep DEF NeededEffect
  <2>2. /\ file' = file /\ forced' = forced
        /\ (job' = job \/ job'.cmd \notin {"rotateCert", "retirePrev"})
    BY <1>6 DEF cmd_secrets_retire, Begin
  <2>3. Needed(c) => Held(c)
    BY <2>2 DEF HeldInv
  <2> QED
    BY <2>1, <2>2, <2>3, HeldSame, LoadedSame
<1>7. ASSUME cmd_keyring_prepare PROVE HeldInv'
  <2> SUFFICES ASSUME ~forced', NEW c \in Number, Needed(c)' PROVE Held(c)'
    BY DEF HeldInv
  <2>1. Needed(c) \/ (Loaded(c) /\ file' = file /\ forced' = forced /\ (job' = job \/ compose_up))
    BY NeededStep DEF NeededEffect
  <2>2. /\ file' = file /\ forced' = forced
        /\ (job' = job \/ job'.cmd \notin {"rotateCert", "retirePrev"})
    BY <1>7 DEF cmd_keyring_prepare, Begin
  <2>3. Needed(c) => Held(c)
    BY <2>2 DEF HeldInv
  <2> QED
    BY <2>1, <2>2, <2>3, HeldSame, LoadedSame
<1>8. ASSUME NEW all \in BOOLEAN, cmd_keyring_reset(all) PROVE HeldInv'
  <2> SUFFICES ASSUME ~forced', NEW c \in Number, Needed(c)' PROVE Held(c)'
    BY DEF HeldInv
  <2>1. Needed(c) \/ (Loaded(c) /\ file' = file /\ forced' = forced /\ (job' = job \/ compose_up))
    BY NeededStep DEF NeededEffect
  <2>2. /\ file' = file /\ forced' = forced
        /\ (job' = job \/ job'.cmd \notin {"rotateCert", "retirePrev"})
    BY <1>8 DEF cmd_keyring_reset, Begin
  <2>3. Needed(c) => Held(c)
    BY <2>2 DEF HeldInv
  <2> QED
    BY <2>1, <2>2, <2>3, HeldSame, LoadedSame
<1>9. ASSUME cmd_up PROVE HeldInv'
  <2> SUFFICES ASSUME ~forced', NEW c \in Number, Needed(c)' PROVE Held(c)'
    BY DEF HeldInv
  <2>1. Needed(c) \/ (Loaded(c) /\ file' = file /\ forced' = forced /\ (job' = job \/ compose_up))
    BY NeededStep DEF NeededEffect
  <2>2. /\ file' = file /\ forced' = forced
        /\ (job' = job \/ job'.cmd \notin {"rotateCert", "retirePrev"})
    BY <1>9 DEF cmd_up, Begin
  <2>3. Needed(c) => Held(c)
    BY <2>2 DEF HeldInv
  <2> QED
    BY <2>1, <2>2, <2>3, HeldSame, LoadedSame
<1>10. ASSUME write_atomic PROVE HeldInv'
  <2> SUFFICES ASSUME ~forced', NEW c \in Number, Needed(c)' PROVE Held(c)'
    BY DEF HeldInv
  <2>1. Needed(c)' <=> Needed(c)
    BY <1>10 DEF write_atomic, Needed, Present
  <2>2. /\ gen' = gen /\ forced' = forced /\ (DPAbsent' => DPAbsent)
        /\ job'.cmd \in {job.cmd, "idle"} /\ job.cmd # "idle"
    BY <1>10, WriteEffect, AdvanceKeepsCmd DEF write_atomic
  <2>3. Held(c) /\ Opens(c) /\ ~DPAbsent /\ ~DPAbsent'
    BY <2>1, <2>2, HeldOpens DEF HeldInv
  <2>4. CASE job.cmd \in {"init", "add"}
    BY <2>3, <2>4, NumberFacts DEF PhaseInv, DPAbsent, DP_SECRETS
  <2>5. CASE job.cmd = "rotateCert"
    <3>1. job.old = c /\ job.oldPw = c
      BY <2>3, <2>5 DEF Held
    <3>2. CASE job.at = 4
      <4>1. Opens(c)'
        BY <1>10, <2>5, <3>1, <3>2, WriteEffect DEF PhaseInv, Opens
      <4> QED
        BY <1>10, <2>3, <2>5, <3>2, <4>1, WriteEffect DEF Held, Idle
    <3>3. CASE job.at # 4
      <4>1. job'.cmd = "rotateCert" /\ job'.old = c /\ job'.oldPw = c
        BY <1>10, <2>5, <3>1, <3>3, WriteEffect DEF TypeOK
      <4> QED
        BY <2>3, <4>1 DEF Held
    <3> QED
      BY <3>2, <3>3
  <2>6. CASE job.cmd = "retirePrev"
    <3>1. file'["cert"] = c /\ file'["certPw"] = c
      BY <1>10, <2>3, <2>6, WriteEffect DEF Held
    <3> QED
      BY <2>2, <2>3, <2>6, <3>1 DEF Held, Opens
  <2>7. CASE job.cmd \notin {"init", "add", "rotateCert", "retirePrev"}
    <3>1. \A f \in DP_SECRETS : file'[f] = file[f]
      BY <1>10, <2>7, WriteEffect
    <3> QED
      BY <2>2, <2>3, <2>7, <3>1, HeldSame
  <2> QED
    BY <2>4, <2>5, <2>6, <2>7
<1>11. ASSUME alter_role PROVE HeldInv'
  <2> SUFFICES ASSUME ~forced', NEW c \in Number, Needed(c)' PROVE Held(c)'
    BY DEF HeldInv
  <2>1. Needed(c) \/ (Loaded(c) /\ file' = file /\ forced' = forced /\ (job' = job \/ compose_up))
    BY NeededStep DEF NeededEffect
  <2>2. /\ file' = file /\ forced' = forced
        /\ (job' = job \/ job'.cmd \notin {"rotateCert", "retirePrev"})
    BY <1>11, QuietAdvance DEF alter_role, Step
  <2>3. Needed(c) => Held(c)
    BY <2>2 DEF HeldInv
  <2> QED
    BY <2>1, <2>2, <2>3, HeldSame, LoadedSame
<1>12. ASSUME keyring_create PROVE HeldInv'
  <2> SUFFICES ASSUME ~forced', NEW c \in Number, Needed(c)' PROVE Held(c)'
    BY DEF HeldInv
  <2>1. Needed(c) \/ (Loaded(c) /\ file' = file /\ forced' = forced /\ (job' = job \/ compose_up))
    BY NeededStep DEF NeededEffect
  <2>2. /\ file' = file /\ forced' = forced
        /\ (job' = job \/ job'.cmd \notin {"rotateCert", "retirePrev"})
    BY <1>12, QuietAdvance DEF keyring_create, Step
  <2>3. Needed(c) => Held(c)
    BY <2>2 DEF HeldInv
  <2> QED
    BY <2>1, <2>2, <2>3, HeldSame, LoadedSame
<1>13. ASSUME keyring_prepare PROVE HeldInv'
  <2> SUFFICES ASSUME ~forced', NEW c \in Number, Needed(c)' PROVE Held(c)'
    BY DEF HeldInv
  <2>1. Needed(c) \/ (Loaded(c) /\ file' = file /\ forced' = forced /\ (job' = job \/ compose_up))
    BY NeededStep DEF NeededEffect
  <2>2. /\ file' = file /\ forced' = forced
        /\ (job' = job \/ job'.cmd \notin {"rotateCert", "retirePrev"})
    BY <1>13, QuietAdvance DEF keyring_prepare, Step
  <2>3. Needed(c) => Held(c)
    BY <2>2 DEF HeldInv
  <2> QED
    BY <2>1, <2>2, <2>3, HeldSame, LoadedSame
<1>14. ASSUME stop_bff PROVE HeldInv'
  <2> SUFFICES ASSUME ~forced', NEW c \in Number, Needed(c)' PROVE Held(c)'
    BY DEF HeldInv
  <2>1. Needed(c) \/ (Loaded(c) /\ file' = file /\ forced' = forced /\ (job' = job \/ compose_up))
    BY NeededStep DEF NeededEffect
  <2>2. /\ file' = file /\ forced' = forced
        /\ (job' = job \/ job'.cmd \notin {"rotateCert", "retirePrev"})
    BY <1>14, QuietAdvance DEF stop_bff, Step
  <2>3. Needed(c) => Held(c)
    BY <2>2 DEF HeldInv
  <2> QED
    BY <2>1, <2>2, <2>3, HeldSame, LoadedSame
<1>15. ASSUME keyring_delete PROVE HeldInv'
  <2> SUFFICES ASSUME ~forced', NEW c \in Number, Needed(c)' PROVE Held(c)'
    BY DEF HeldInv
  <2>1. Needed(c) \/ (Loaded(c) /\ file' = file /\ forced' = forced /\ (job' = job \/ compose_up))
    BY NeededStep DEF NeededEffect
  <2>2. /\ file' = file /\ forced' = forced
        /\ (job' = job \/ job'.cmd \notin {"rotateCert", "retirePrev"})
    BY <1>15, QuietAdvance DEF keyring_delete, Step
  <2>3. Needed(c) => Held(c)
    BY <2>2 DEF HeldInv
  <2> QED
    BY <2>1, <2>2, <2>3, HeldSame, LoadedSame
<1>16. ASSUME compose_up PROVE HeldInv'
  <2> SUFFICES ASSUME ~forced', NEW c \in Number, Needed(c)' PROVE Held(c)'
    BY DEF HeldInv
  <2>1. Needed(c) \/ (Loaded(c) /\ file' = file /\ forced' = forced /\ (job' = job \/ compose_up))
    BY NeededStep DEF NeededEffect
  <2>2. /\ file' = file /\ forced' = forced
        /\ (job' = job \/ job'.cmd \notin {"rotateCert", "retirePrev"})
    BY <1>16, QuietAdvance DEF compose_up, Step
  <2>3. Needed(c) => Held(c)
    BY <2>2 DEF HeldInv
  <2> QED
    BY <2>1, <2>2, <2>3, HeldSame, LoadedSame
<1>17. ASSUME StepFails PROVE HeldInv'
  <2> SUFFICES ASSUME ~forced', NEW c \in Number, Needed(c)' PROVE Held(c)'
    BY DEF HeldInv
  <2>1. Needed(c) \/ (Loaded(c) /\ file' = file /\ forced' = forced /\ (job' = job \/ compose_up))
    BY NeededStep DEF NeededEffect
  <2>2. /\ file' = file /\ forced' = forced
        /\ (job' = job \/ job'.cmd \notin {"rotateCert", "retirePrev"})
    BY <1>17 DEF StepFails, Idle
  <2>3. Needed(c) => Held(c)
    BY <2>2 DEF HeldInv
  <2> QED
    BY <2>1, <2>2, <2>3, HeldSame, LoadedSame
<1>18. ASSUME Interrupted PROVE HeldInv'
  <2> SUFFICES ASSUME ~forced', NEW c \in Number, Needed(c)' PROVE Held(c)'
    BY DEF HeldInv
  <2>1. Needed(c) \/ (Loaded(c) /\ file' = file /\ forced' = forced /\ (job' = job \/ compose_up))
    BY NeededStep DEF NeededEffect
  <2>2. /\ file' = file /\ forced' = forced
        /\ (job' = job \/ job'.cmd \notin {"rotateCert", "retirePrev"})
    BY <1>18 DEF Interrupted, Idle
  <2>3. Needed(c) => Held(c)
    BY <2>2 DEF HeldInv
  <2> QED
    BY <2>1, <2>2, <2>3, HeldSame, LoadedSame
<1>19. ASSUME RestartBff PROVE HeldInv'
  <2> SUFFICES ASSUME ~forced', NEW c \in Number, Needed(c)' PROVE Held(c)'
    BY DEF HeldInv
  <2>1. Needed(c) \/ (Loaded(c) /\ file' = file /\ forced' = forced /\ (job' = job \/ compose_up))
    BY NeededStep DEF NeededEffect
  <2>2. /\ file' = file /\ forced' = forced
        /\ (job' = job \/ job'.cmd \notin {"rotateCert", "retirePrev"})
    BY <1>19 DEF RestartBff
  <2>3. Needed(c) => Held(c)
    BY <2>2 DEF HeldInv
  <2> QED
    BY <2>1, <2>2, <2>3, HeldSame, LoadedSame
<1>20. ASSUME StopBff PROVE HeldInv'
  <2> SUFFICES ASSUME ~forced', NEW c \in Number, Needed(c)' PROVE Held(c)'
    BY DEF HeldInv
  <2>1. Needed(c) \/ (Loaded(c) /\ file' = file /\ forced' = forced /\ (job' = job \/ compose_up))
    BY NeededStep DEF NeededEffect
  <2>2. /\ file' = file /\ forced' = forced
        /\ (job' = job \/ job'.cmd \notin {"rotateCert", "retirePrev"})
    BY <1>20 DEF StopBff
  <2>3. Needed(c) => Held(c)
    BY <2>2 DEF HeldInv
  <2> QED
    BY <2>1, <2>2, <2>3, HeldSame, LoadedSame
<1>21. ASSUME NEW s \in Slots, CreateKey(s) PROVE HeldInv'
  <2> SUFFICES ASSUME ~forced', NEW c \in Number, Needed(c)' PROVE Held(c)'
    BY DEF HeldInv
  <2>1. Needed(c) \/ (Loaded(c) /\ file' = file /\ forced' = forced /\ (job' = job \/ compose_up))
    BY NeededStep DEF NeededEffect
  <2>2. /\ file' = file /\ forced' = forced
        /\ (job' = job \/ job'.cmd \notin {"rotateCert", "retirePrev"})
    BY <1>21 DEF CreateKey
  <2>3. Needed(c) => Held(c)
    BY <2>2 DEF HeldInv
  <2> QED
    BY <2>1, <2>2, <2>3, HeldSame, LoadedSame
<1>22. ASSUME NEW s \in Slots, ExpireKey(s) PROVE HeldInv'
  <2> SUFFICES ASSUME ~forced', NEW c \in Number, Needed(c)' PROVE Held(c)'
    BY DEF HeldInv
  <2>1. Needed(c) \/ (Loaded(c) /\ file' = file /\ forced' = forced /\ (job' = job \/ compose_up))
    BY NeededStep DEF NeededEffect
  <2>2. /\ file' = file /\ forced' = forced
        /\ (job' = job \/ job'.cmd \notin {"rotateCert", "retirePrev"})
    BY <1>22 DEF ExpireKey
  <2>3. Needed(c) => Held(c)
    BY <2>2 DEF HeldInv
  <2> QED
    BY <2>1, <2>2, <2>3, HeldSame, LoadedSame
<1>23. ASSUME RemoveHalfWritten PROVE HeldInv'
  <2> SUFFICES ASSUME ~forced', NEW c \in Number, Needed(c)' PROVE Held(c)'
    BY DEF HeldInv
  <2>1. DPAbsent
    BY <1>23, Names DEF RemoveHalfWritten, DPAbsent
  <2>2. Needed(c)
    BY <1>23, <2>1, NeededStep DEF NeededEffect, Loaded
  <2>3. forced' = forced
    BY <1>23 DEF RemoveHalfWritten
  <2> QED
    BY <2>1, <2>2, <2>3, HeldOpens DEF HeldInv
<1>24. ASSUME RemoveVolume PROVE HeldInv'
  <2> SUFFICES ASSUME ~forced', NEW c \in Number, Needed(c)' PROVE Held(c)'
    BY DEF HeldInv
  <2>1. Needed(c) \/ (Loaded(c) /\ file' = file /\ forced' = forced /\ (job' = job \/ compose_up))
    BY NeededStep DEF NeededEffect
  <2>2. /\ file' = file /\ forced' = forced
        /\ (job' = job \/ job'.cmd \notin {"rotateCert", "retirePrev"})
    BY <1>24 DEF RemoveVolume
  <2>3. Needed(c) => Held(c)
    BY <2>2 DEF HeldInv
  <2> QED
    BY <2>1, <2>2, <2>3, HeldSame, LoadedSame
<1>25. ASSUME UNCHANGED vars PROVE HeldInv'
  <2> SUFFICES ASSUME ~forced', NEW c \in Number, Needed(c)' PROVE Held(c)'
    BY DEF HeldInv
  <2>1. Needed(c) \/ (Loaded(c) /\ file' = file /\ forced' = forced /\ (job' = job \/ compose_up))
    BY NeededStep DEF NeededEffect
  <2>2. /\ file' = file /\ forced' = forced
        /\ (job' = job \/ job'.cmd \notin {"rotateCert", "retirePrev"})
    BY <1>25 DEF vars
  <2>3. Needed(c) => Held(c)
    BY <2>2 DEF HeldInv
  <2> QED
    BY <2>1, <2>2, <2>3, HeldSame, LoadedSame
<1> QED
  BY <1>1, <1>2, <1>3, <1>4, <1>5, <1>6, <1>7, <1>8, <1>9, <1>10, <1>11, <1>12,
     <1>13, <1>14, <1>15, <1>16, <1>17, <1>18, <1>19, <1>20, <1>21, <1>22, <1>23, <1>24,
     <1>25 DEF Next

(* What a write of a database rotation does.                               *)
LEMMA DbWriteEffect ==
    ASSUME TypeOK, write_atomic, job.cmd = "rotateDb"
    PROVE  /\ job.at \in 2 .. 3 /\ role' = role /\ gen' = gen
           /\ file'["dbPw"] = IF job.at = 2 THEN gen["migrator_db"] ELSE file["dbPw"]
           /\ file'["dbConn"] = IF job.at = 3 THEN gen["migrator_db"] ELSE file["dbConn"]
           /\ job' = IF job.at = 3 THEN Idle ELSE [job EXCEPT !.at = job.at + 1]
<1> DEFINE w == Plan(job)[job.at]
<1>1. PlanDbWrite(w)
  BY WriteFacts DEF write_atomic
<1>2. file' = [file EXCEPT ![w.name] = w.val]
  BY DEF write_atomic
<1>3. job' = IF job.at = Len(Plan(job)) THEN Idle ELSE [job EXCEPT !.at = job.at + 1]
  BY DEF write_atomic, Advance
<1>4. role' = role /\ gen' = gen /\ {"dbPw", "dbConn"} \subseteq SECRET_FILE_NAMES
  BY Names DEF write_atomic, TypeOK
<1> HIDE DEF w
<1>5. w.name = (IF job.at = 2 THEN "dbPw" ELSE "dbConn") /\ w.val = gen["migrator_db"]
  BY <1>1 DEF PlanDbWrite, Write
<1>6. \A f \in {"dbPw", "dbConn"} : file'[f] = IF f = w.name THEN w.val ELSE file[f]
  BY <1>2, <1>4 DEF TypeOK
<1> QED
  BY <1>1, <1>3, <1>4, <1>5, <1>6 DEF PlanDbWrite

(* Every step keeps RoleInv.                                               *)
LEMMA RoleStep ==
    ASSUME TypeOK, RoleInv, [Next]_vars
    PROVE  RoleInv'
<1> USE DEF RoleInv
<1>1. ASSUME cmd_secrets_init PROVE RoleInv'
  BY <1>1 DEF cmd_secrets_init, Begin
<1>2. ASSUME cmd_secrets_add PROVE RoleInv'
  BY <1>2 DEF cmd_secrets_add, Begin
<1>3. ASSUME NEW drop \in BOOLEAN, rotate_certificate(drop) PROVE RoleInv'
  BY <1>3 DEF rotate_certificate, Begin
<1>4. ASSUME NEW l \in Logicals, NEW db \in BOOLEAN, cmd_secrets_rotate(l, db) PROVE RoleInv'
  BY <1>4 DEF cmd_secrets_rotate, Begin
<1>5. ASSUME retire_previous_certificate PROVE RoleInv'
  BY <1>5 DEF retire_previous_certificate, Begin
<1>6. ASSUME cmd_secrets_retire PROVE RoleInv'
  BY <1>6 DEF cmd_secrets_retire, Begin
<1>7. ASSUME cmd_keyring_prepare PROVE RoleInv'
  BY <1>7 DEF cmd_keyring_prepare, Begin
<1>8. ASSUME NEW all \in BOOLEAN, cmd_keyring_reset(all) PROVE RoleInv'
  BY <1>8 DEF cmd_keyring_reset, Begin
<1>9. ASSUME cmd_up PROVE RoleInv'
  BY <1>9 DEF cmd_up, Begin
<1>10. ASSUME write_atomic PROVE RoleInv'
  <2>1. CASE job.cmd = "rotateDb"
    BY <1>10, <2>1, DbWriteEffect DEF Idle, TypeOK
  <2>2. CASE job.cmd # "rotateDb"
    BY <1>10, <2>2, AdvanceKeepsCmd DEF write_atomic
  <2> QED
    BY <2>1, <2>2
<1>11. ASSUME alter_role PROVE RoleInv'
  <2>1. job.at = 1
    BY <1>11, AlterIsRotateDb, OtherFacts DEF alter_role, Step
  <2>2. job'.cmd = "rotateDb" => job'.at = 2
    BY <1>11, <2>1 DEF alter_role, Advance, Idle, TypeOK
  <2> QED
    BY <1>11, <2>2 DEF alter_role
<1>12. ASSUME keyring_create PROVE RoleInv'
  <2>1. job.cmd # "rotateDb"
    BY <1>12, OtherFacts DEF keyring_create, Step
  <2> QED
    BY <1>12, <2>1, AdvanceKeepsCmd DEF keyring_create
<1>13. ASSUME keyring_prepare PROVE RoleInv'
  <2>1. job.cmd # "rotateDb"
    BY <1>13, OtherFacts DEF keyring_prepare, Step
  <2> QED
    BY <1>13, <2>1, AdvanceKeepsCmd DEF keyring_prepare
<1>14. ASSUME stop_bff PROVE RoleInv'
  <2>1. job.cmd # "rotateDb"
    BY <1>14, OtherFacts DEF stop_bff, Step
  <2> QED
    BY <1>14, <2>1, AdvanceKeepsCmd DEF stop_bff
<1>15. ASSUME keyring_delete PROVE RoleInv'
  <2>1. job.cmd # "rotateDb"
    BY <1>15, OtherFacts DEF keyring_delete, Step
  <2> QED
    BY <1>15, <2>1, AdvanceKeepsCmd DEF keyring_delete
<1>16. ASSUME compose_up PROVE RoleInv'
  <2>1. job.cmd # "rotateDb"
    BY <1>16, StartIsUp DEF compose_up
  <2> QED
    BY <1>16, <2>1, AdvanceKeepsCmd DEF compose_up
<1>17. ASSUME StepFails PROVE RoleInv'
  BY <1>17 DEF StepFails, Idle
<1>18. ASSUME Interrupted PROVE RoleInv'
  BY <1>18 DEF Interrupted, Idle
<1>19. ASSUME RestartBff PROVE RoleInv'
  BY <1>19 DEF RestartBff
<1>20. ASSUME StopBff PROVE RoleInv'
  BY <1>20 DEF StopBff
<1>21. ASSUME NEW s \in Slots, CreateKey(s) PROVE RoleInv'
  BY <1>21 DEF CreateKey
<1>22. ASSUME NEW s \in Slots, ExpireKey(s) PROVE RoleInv'
  BY <1>22 DEF ExpireKey
<1>23. ASSUME RemoveHalfWritten PROVE RoleInv'
  BY <1>23 DEF RemoveHalfWritten
<1>24. ASSUME RemoveVolume PROVE RoleInv'
  BY <1>24 DEF RemoveVolume
<1>25. ASSUME UNCHANGED vars PROVE RoleInv'
  BY <1>25 DEF vars
<1> QED
  BY <1>1, <1>2, <1>3, <1>4, <1>5, <1>6, <1>7, <1>8, <1>9, <1>10, <1>11, <1>12,
     <1>13, <1>14, <1>15, <1>16, <1>17, <1>18, <1>19, <1>20, <1>21, <1>22, <1>23, <1>24,
     <1>25 DEF Next

(* The inductive invariant.                                                *)
IInv == TypeOK /\ UpInv /\ RingInv /\ PasswordInv /\ PhaseInv /\ TornInv /\ HeldInv /\ RoleInv

(* It holds initially.                                                     *)
LEMMA InitInv == Init => RingInv /\ PasswordInv /\ PhaseInv /\ TornInv /\ HeldInv /\ RoleInv
<1> SUFFICES ASSUME Init
             PROVE  RingInv /\ PasswordInv /\ PhaseInv /\ TornInv /\ HeldInv /\ RoleInv
  OBVIOUS
<1>1. /\ \A f \in DP_SECRETS : file[f] = Absent
      /\ bff.up = FALSE /\ job.cmd = "idle"
  BY Names DEF Init, Stopped, Idle
<1>2. \A s \in Slots : key[s].kind # "wrapped"
  BY DEF Init, NoKey
<1>3. gen[DP_LOGICAL] = 0
  BY DEF Init
<1>4. DPAbsent
  BY <1>1 DEF DPAbsent, DP_SECRETS
<1>5. RingInv
  BY <1>1, <1>2 DEF RingInv, RunningBffReadsItsRing, Present
<1>6. PasswordInv
  BY <1>1, <1>3 DEF PasswordInv, DP_SECRETS, Absent, Empty
<1>7. PhaseInv /\ RoleInv /\ TornInv
  BY <1>1, <1>4 DEF PhaseInv, RoleInv, TornInv
<1>8. HeldInv
  BY <1>1, <1>2 DEF HeldInv, Needed, Present
<1> QED
  BY <1>5, <1>6, <1>7, <1>8

(* It holds in every state.                                                *)
THEOREM IInvariant == Spec => []IInv
<1>1. Init => TypeOK /\ UpInv
  BY InitTyped
<1>2. IInv /\ [Next]_vars => IInv'
  <2> SUFFICES ASSUME IInv, [Next]_vars PROVE IInv'
    OBVIOUS
  <2> USE DEF IInv
  <2>1. TypeOK' /\ UpInv'
    BY TypeStep
  <2>2. RingInv'
    BY RingStep
  <2>3. PasswordInv'
    BY PasswordStep
  <2>4. PhaseInv'
    BY PhaseStep
  <2>5. TornInv'
    BY TornStep
  <2>6. HeldInv'
    BY HeldStep
  <2>7. RoleInv'
    BY RoleStep
  <2> QED
    BY <2>1, <2>2, <2>3, <2>4, <2>5, <2>6, <2>7
<1> QED
  BY <1>1, <1>2, InitInv, PTL DEF Spec, IInv

(* A BFF that runs reads every live key of its ring, and nothing in the    *)
(* ring is in clear.                                                       *)
THEOREM RingReadable == Spec => []RunningBffReadsItsRing
<1>1. IInv => RunningBffReadsItsRing
  BY DEF IInv, RingInv
<1> QED
  BY <1>1, IInvariant, PTL

(* No rotation, retirement or interruption leaves a live key without a     *)
(* pair that opens its certificate, unless the operator gave it up.        *)
THEOREM KeysKept == Spec => []NoLiveKeyStranded
<1>1. IInv => NoLiveKeyStranded
  <2> SUFFICES ASSUME IInv, ~forced, NEW s \in Slots, key[s].kind = "wrapped", key[s].live
               PROVE  Opens(key[s].cert)
    BY DEF NoLiveKeyStranded
  <2>1. key[s].cert \in Number
    BY DEF IInv, TypeOK, KeyFile
  <2>2. Needed(key[s].cert)
    BY DEF Needed, Present
  <2> QED
    BY <2>1, <2>2, HeldOpens DEF IInv, HeldInv
<1> QED
  BY <1>1, IInvariant, PTL

(* The argument: clean files are two pairs that belong together, and every *)
(* live key is wrapped with one of them.                                   *)
LEMMA CleanStarts == ASSUME IInv PROVE CleanChecksMeanBffStarts
<1> SUFFICES ASSUME job.cmd = "idle", ~torn, ~forced, secrets_clean(file), volume.exists, keyring_clean
             PROVE  StartedBff(file).up
  BY DEF CleanChecksMeanBffStarts
<1>1. /\ \A n \in DP_SECRETS : file[n] # Absent
      /\ file["cert"] # Empty /\ file["certPw"] # Empty
      /\ (file["prev"] = Empty) <=> (file["prevPw"] = Empty)
      /\ file["prev"] # Empty => file["prev"] # file["cert"]
  BY Names DEF secrets_clean, shape_ok, derived_ok, DP_SECRETS
<1>2. file["cert"] = file["certPw"] /\ file["prev"] = file["prevPw"]
  BY <1>1 DEF IInv, TornInv, DPAbsent
<1>3. file["cert"] > Empty /\ (file["prev"] # Empty => file["prev"] > Empty)
  BY <1>1, Counts DEF IInv, DP_SECRETS, Empty
<1> DEFINE cur == TryLoad(file["cert"], file["certPw"])
           prev == TryLoad(file["prev"], file["prevPw"])
<1>4. cur = file["cert"] /\ prev = file["prev"] /\ cur # Empty
  BY <1>1, <1>2, <1>3 DEF TryLoad
<1>5. OptionsValid(file)
  BY <1>1, <1>4 DEF OptionsValid
<1> HIDE DEF cur, prev
<1>6. ASSUME NEW s \in Present, key[s].live, key[s].kind = "wrapped" PROVE Unwraps(cur, prev, s)
  <2>1. key[s].cert \in Number /\ Needed(key[s].cert)
    BY <1>6 DEF IInv, TypeOK, KeyFile, Needed, Present
  <2>2. Opens(key[s].cert) /\ key[s].cert # Empty
    BY <2>1, HeldOpens, NeededNotEmpty DEF IInv, HeldInv
  <2> QED
    BY <1>4, <1>6, <2>2 DEF Opens, Unwraps
<1>7. StartupCheck(cur, prev)
  BY <1>6 DEF StartupCheck, keyring_clean
<1> QED
  BY <1>1, <1>5, <1>7 DEF StartedBff, cur, prev

(* Clean checks mean that the BFF starts, unless a rotation was cut        *)
(* between the certificate and its password or a needed certificate was    *)
(* given up.                                                               *)
THEOREM CleanMeansStart == Spec => []CleanChecksMeanBffStarts
<1>1. IInv => CleanChecksMeanBffStarts
  BY CleanStarts
<1> QED
  BY <1>1, IInvariant, PTL

(* What RotationEndsAgreed says of one step.                               *)
AgreeStep ==
    (job.cmd = "rotateDb" /\ file["dbConn"] # file'["dbConn"]) =>
        role' = file'["dbPw"] /\ file'["dbPw"] = file'["dbConn"]

(* Every step is as AgreeStep says.                                        *)
LEMMA AgreeSteps ==
    ASSUME TypeOK, RoleInv, [Next]_vars
    PROVE  AgreeStep
<1> USE DEF AgreeStep
<1>1. ASSUME cmd_secrets_init PROVE AgreeStep
  BY <1>1 DEF cmd_secrets_init
<1>2. ASSUME cmd_secrets_add PROVE AgreeStep
  BY <1>2 DEF cmd_secrets_add
<1>3. ASSUME NEW drop \in BOOLEAN, rotate_certificate(drop) PROVE AgreeStep
  BY <1>3 DEF rotate_certificate
<1>4. ASSUME NEW l \in Logicals, NEW db \in BOOLEAN, cmd_secrets_rotate(l, db) PROVE AgreeStep
  BY <1>4 DEF cmd_secrets_rotate
<1>5. ASSUME retire_previous_certificate PROVE AgreeStep
  BY <1>5 DEF retire_previous_certificate
<1>6. ASSUME cmd_secrets_retire PROVE AgreeStep
  BY <1>6 DEF cmd_secrets_retire
<1>7. ASSUME cmd_keyring_prepare PROVE AgreeStep
  BY <1>7 DEF cmd_keyring_prepare
<1>8. ASSUME NEW all \in BOOLEAN, cmd_keyring_reset(all) PROVE AgreeStep
  BY <1>8 DEF cmd_keyring_reset
<1>9. ASSUME cmd_up PROVE AgreeStep
  BY <1>9 DEF cmd_up
<1>10. ASSUME write_atomic PROVE AgreeStep
  BY <1>10, DbWriteEffect DEF RoleInv
<1>11. ASSUME alter_role PROVE AgreeStep
  BY <1>11 DEF alter_role
<1>12. ASSUME keyring_create PROVE AgreeStep
  BY <1>12 DEF keyring_create
<1>13. ASSUME keyring_prepare PROVE AgreeStep
  BY <1>13 DEF keyring_prepare
<1>14. ASSUME stop_bff PROVE AgreeStep
  BY <1>14 DEF stop_bff
<1>15. ASSUME keyring_delete PROVE AgreeStep
  BY <1>15 DEF keyring_delete
<1>16. ASSUME compose_up PROVE AgreeStep
  BY <1>16 DEF compose_up
<1>17. ASSUME StepFails PROVE AgreeStep
  BY <1>17 DEF StepFails
<1>18. ASSUME Interrupted PROVE AgreeStep
  BY <1>18 DEF Interrupted
<1>19. ASSUME RestartBff PROVE AgreeStep
  BY <1>19 DEF RestartBff
<1>20. ASSUME StopBff PROVE AgreeStep
  BY <1>20 DEF StopBff
<1>21. ASSUME NEW s \in Slots, CreateKey(s) PROVE AgreeStep
  BY <1>21 DEF CreateKey
<1>22. ASSUME NEW s \in Slots, ExpireKey(s) PROVE AgreeStep
  BY <1>22 DEF ExpireKey
<1>23. ASSUME RemoveHalfWritten PROVE AgreeStep
  BY <1>23 DEF RemoveHalfWritten
<1>24. ASSUME RemoveVolume PROVE AgreeStep
  BY <1>24 DEF RemoveVolume
<1>25. ASSUME UNCHANGED vars PROVE AgreeStep
  BY <1>25 DEF vars
<1> QED
  BY <1>1, <1>2, <1>3, <1>4, <1>5, <1>6, <1>7, <1>8, <1>9, <1>10, <1>11, <1>12,
     <1>13, <1>14, <1>15, <1>16, <1>17, <1>18, <1>19, <1>20, <1>21, <1>22, <1>23, <1>24,
     <1>25 DEF Next

(* A database rotation that runs to its end leaves role, password and      *)
(* connection string on one value.                                         *)
THEOREM DbRotationAgrees == Spec => RotationEndsAgreed
<1>1. IInv /\ [Next]_vars => [AgreeStep]_vars
  BY AgreeSteps DEF IInv
<1> QED
  BY <1>1, IInvariant, PTL DEF Spec, RotationEndsAgreed, AgreeStep
=============================================================================
