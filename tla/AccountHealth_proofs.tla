------------------------ MODULE AccountHealth_proofs ------------------------
(***************************************************************************)
(* Proofs about AccountHealth, for any number of accounts, crawlers, calls *)
(* and crashes: the types, that no active account is lost (NoneLost) and   *)
(* that no call returns a retired one (NoneRetired).                       *)
(*                                                                         *)
(* A crawler decides to remove an account when it is not active and        *)
(* removes it later, whoever has added it in between: NoneLost needs that  *)
(* an account on its way out, should it be active again, still waits to be *)
(* added (OutgoingWait).  NoneRetired needs that an account has become     *)
(* active before a call looks at it and finds it so (RetiredStayOut).      *)
(***************************************************************************)
EXTENDS AccountHealth, TLAPS

Places == {"idle", "pop", "fill", "exec", "look", "drop", "keep", "use", "clamp", "suspend", "zrem"}
Calling == [at : Places, acc : Accounts \cup {None}, score : Int, attempt : Int,
            todo : SUBSET Accounts]
Validating == [at : {"idle", "next", "zscore", "zadd"}, todo : SUBSET Accounts,
               acc : Accounts \cup {None}, by : Int]

\* The scores a pipeline will write.
Scores(new) == DOMAIN new \subseteq Accounts /\ \A a \in DOMAIN new : new[a] \in Int

Holds(r) == r.at \in {"look", "drop", "keep", "use", "clamp", "suspend", "zrem"} => r.acc \in Accounts

HealthTypes ==
  /\ TypeOK
  /\ crawler \in [Crawlers -> Calling] /\ \A c \in Crawlers : Holds(crawler[c])
  /\ starter.todo \subseteq Accounts
  /\ recovery.todo \subseteq Accounts /\ Scores(recovery.new)
  /\ validation \in Validating
  /\ validation.at \in {"zscore", "zadd"} => validation.acc \in Accounts
  /\ check.at # "idle" => check.acc \in Accounts
  /\ check.status \in Statuses

OutgoingWait ==
  \A c \in Crawlers :
    crawler[c].at \in {"drop", "zrem"} /\ Active(crawler[c].acc) => crawler[c].acc \in unsynced

RetiredStayOut ==
  \A c \in Crawlers :
    /\ \A a \in retired[c] : ~Active(a)
    /\ crawler[c].at = "keep" => crawler[c].acc \notin retired[c]

HealthInv == HealthTypes /\ NoneLost /\ OutgoingWait /\ RetiredStayOut
-----------------------------------------------------------------------------
(* Redis and PostgreSQL. *)
LEMMA LeastMostInt ==
  ASSUME NEW x \in Int, NEW y \in Int
  PROVE  Least(x, y) \in Int /\ Most(x, y) \in Int
BY DEF Least, Most

\* ZADD adds, and ends the waiting of what it adds unless a call removes it.
LEMMA ZaddFacts ==
  ASSUME TypeOK, NEW new, Scores(new), Zadd(new)
  PROVE  /\ DOMAIN score' \subseteq Accounts /\ \A a \in DOMAIN score' : score'[a] \in Int
         /\ unsynced' \subseteq Accounts
         /\ \A a : Queued(a) \/ a \in DOMAIN new => Queued(a)'
         /\ \A a \in unsynced : a \in unsynced' \/ (Queued(a)' /\ ~Removing(a))
<1>1. score' = [a \in DOMAIN score \cup DOMAIN new |-> IF a \in DOMAIN new THEN new[a] ELSE score[a]]
  BY DEF Zadd
<1>2. DOMAIN score' \subseteq Accounts /\ \A a \in DOMAIN score' : score'[a] \in Int
  BY <1>1 DEF TypeOK, Scores
<1>3. \A a : Queued(a) \/ a \in DOMAIN new => Queued(a)'
  <2>1. DOMAIN score' = DOMAIN score \cup DOMAIN new
    BY <1>1
  <2> QED
    BY <2>1 DEF Queued
<1>4. unsynced' = {a \in unsynced : a \in DOMAIN new => Removing(a)}
  BY DEF Zadd
<1>5. \A a \in unsynced : a \in unsynced' \/ (Queued(a)' /\ ~Removing(a))
  BY <1>3, <1>4
<1> QED
  BY <1>2, <1>3, <1>4, <1>5 DEF TypeOK

LEMMA OneScore ==
  ASSUME NEW a \in Accounts, NEW s \in Int
  PROVE  Scores([x \in {a} |-> s]) /\ DOMAIN [x \in {a} |-> s] = {a}
BY DEF Scores

LEMMA RemoveFacts ==
  ASSUME TypeOK, NEW a \in Accounts, Remove(a)
  PROVE  /\ DOMAIN score' \subseteq Accounts /\ \A x \in DOMAIN score' : score'[x] \in Int
         /\ \A x : x # a => (Queued(x)' <=> Queued(x))
BY DEF TypeOK, Remove, Queued

\* save() of a row: what becomes active waits to be added, and nobody's call
\* counts it among the retired any more.
LEMMA SaveFacts ==
  ASSUME TypeOK, NEW a \in Accounts, NEW st \in Statuses, SaveStatus(a, st)
  PROVE  /\ status' \in [Accounts -> Statuses] /\ unsynced' \subseteq Accounts
         /\ retired' \in [Crawlers -> SUBSET Accounts]
         /\ unsynced \subseteq unsynced'
         /\ \A x \in Accounts : Active(x)' => Active(x) \/ x \in unsynced'
         /\ \A c \in Crawlers : retired'[c] \subseteq retired[c]
         /\ \A c \in Crawlers : \A x \in retired'[c] : Active(x)' => Active(x)
BY DEF TypeOK, SaveStatus, Active

(* What a step of a crawler does to its call; the others' stay.             *)
OthersC(c) ==
  /\ crawler' \in [Crawlers -> Calling] /\ Holds(crawler'[c])
  /\ \A d \in Crawlers \ {c} : crawler'[d] = crawler[d]

LEMMA GotoCFacts ==
  ASSUME HealthTypes, NEW c \in Crawlers, NEW r \in Calling, Holds(r), GotoC(c, r)
  PROVE  OthersC(c) /\ crawler'[c] = r
BY DEF HealthTypes, GotoC, OthersC

LEMMA CallFacts ==
  /\ CrawlerIdle \in Calling /\ Holds(CrawlerIdle) /\ CrawlerIdle.at = "idle"
  /\ \A p \in Places, a \in Accounts \cup {None}, s \in Int, n \in Int :
       /\ CrawlerAt(p, a, s, n) \in Calling /\ CrawlerAt(p, a, s, n).at = p
       /\ CrawlerAt(p, a, s, n).acc = a
BY DEF CrawlerIdle, CrawlerAt, Calling, Holds, Places

LEMMA AgainFacts ==
  ASSUME HealthTypes, NEW c \in Crawlers
  PROVE  Again(c) \in Calling /\ Holds(Again(c)) /\ Again(c).at \in {"idle", "pop"}
<1>1. crawler[c].attempt \in Int
  BY DEF HealthTypes, Calling
<1>2. CrawlerAt("pop", None, 0, crawler[c].attempt + 1) \in Calling
  BY <1>1, CallFacts DEF Places
<1> QED
  BY <1>1, <1>2, CallFacts DEF Again, Holds, Places

LEMMA MoveFacts ==
  ASSUME HealthTypes, NEW c \in Crawlers, NEW p \in Places, Holds([crawler[c] EXCEPT !.at = p])
  PROVE  /\ [crawler[c] EXCEPT !.at = p] \in Calling
         /\ [crawler[c] EXCEPT !.at = p].at = p
         /\ [crawler[c] EXCEPT !.at = p].acc = crawler[c].acc
BY DEF HealthTypes, Calling

-----------------------------------------------------------------------------
(* What each step of a crawler does to its own call.  At(c, p) is the end of *)
(* a step that leads to p with the account c has; Out(c) is one that leads   *)
(* to a place without an account.                                            *)
At(c, p)  == OthersC(c) /\ crawler'[c].at = p /\ crawler'[c].acc = crawler[c].acc
Out(c) == OthersC(c) /\ crawler'[c].at \in {"idle", "pop", "fill", "exec"}

LEMMA GotoAt ==
  ASSUME HealthTypes, NEW c \in Crawlers, NEW p \in Places, crawler[c].acc \in Accounts,
         GotoC(c, [crawler[c] EXCEPT !.at = p])
  PROVE  At(c, p)
<1> DEFINE r == [crawler[c] EXCEPT !.at = p]
<1>1. r \in Calling /\ r.at = p /\ r.acc = crawler[c].acc
  BY DEF HealthTypes, Calling
<1>2. Holds(r)
  <2> HIDE DEF r
  <2> QED
    BY <1>1 DEF Holds
<1>3. GotoC(c, r)
  OBVIOUS
<1> HIDE DEF r
<1> QED
  BY <1>1, <1>2, <1>3, GotoCFacts DEF At

LEMMA SelectMove ==
  ASSUME HealthTypes, NEW c \in Crawlers, Select(c)
  PROVE  Out(c)
BY GotoCFacts, CallFacts DEF Select, Out, Holds, Places

LEMMA PopMove ==
  ASSUME HealthTypes, NEW c \in Crawlers, Pop(c)
  PROVE  \E a \in Accounts : Remove(a) /\ OthersC(c) /\ crawler'[c].at = "look" /\ crawler'[c].acc = a
<1>1. PICK a \in Accounts : /\ Queued(a) /\ Remove(a)
                            /\ GotoC(c, CrawlerAt("look", a, score[a], crawler[c].attempt))
  BY DEF Pop
<1>2. score[a] \in Int /\ crawler[c].attempt \in Int
  BY <1>1 DEF HealthTypes, TypeOK, Calling, Queued
<1>3. /\ CrawlerAt("look", a, score[a], crawler[c].attempt) \in Calling
      /\ CrawlerAt("look", a, score[a], crawler[c].attempt).at = "look"
      /\ CrawlerAt("look", a, score[a], crawler[c].attempt).acc = a
  BY <1>2, CallFacts DEF Places
<1> QED
  BY <1>1, <1>3, GotoCFacts DEF Holds

LEMMA NoAccountMove ==
  ASSUME HealthTypes, NEW c \in Crawlers, NoAccount(c)
  PROVE  Out(c)
<1>1. Holds([crawler[c] EXCEPT !.at = "fill"])
  BY DEF HealthTypes, Calling, Holds
<1>2. /\ [crawler[c] EXCEPT !.at = "fill"] \in Calling
      /\ [crawler[c] EXCEPT !.at = "fill"].at = "fill"
  BY <1>1, MoveFacts DEF Places
<1> QED
  BY <1>1, <1>2, GotoCFacts, CallFacts DEF NoAccount, Out

LEMMA FillMove ==
  ASSUME HealthTypes, NEW c \in Crawlers, Fill(c)
  PROVE  /\ Out(c)
         /\ UNCHANGED <<score, unsynced>> \/ \E new : Scores(new) /\ Zadd(new)
<1>1. CASE crawler[c].at = "fill"
  <2> DEFINE todo == {a \in Accounts : Active(a)}
             r == [[crawler[c] EXCEPT !.at = "exec"] EXCEPT !.todo = todo]
  <2>1. crawler[c] \in Calling /\ todo \in SUBSET Accounts
    BY DEF HealthTypes
  <2>2. r \in Calling /\ r.at = "exec" /\ Holds(r)
    <3> HIDE DEF todo
    <3> QED
      BY <2>1 DEF Calling, Places, Holds
  <2>3. GotoC(c, r) /\ UNCHANGED <<score, unsynced>>
    BY <1>1, <2>1 DEF Fill
  <2> QED
    <3> HIDE DEF r
    <3> QED
      BY <2>2, <2>3, GotoCFacts DEF Out
<1>2. CASE crawler[c].at = "exec"
  <2>1. Scores([a \in crawler[c].todo |-> MaxScore])
    BY AccountHealthAssumption DEF AccountHealthAssumption, Scores, HealthTypes, Calling
  <2>2. Zadd([a \in crawler[c].todo |-> MaxScore]) /\ GotoC(c, Again(c))
    BY <1>2 DEF Fill
  <2> QED
    BY <2>1, <2>2, AgainFacts, GotoCFacts DEF Out
<1> QED
  BY <1>1, <1>2 DEF Fill

LEMMA LookMove ==
  ASSUME HealthTypes, NEW c \in Crawlers, Look(c)
  PROVE  \/ Active(crawler[c].acc) /\ At(c, "keep")
         \/ ~Active(crawler[c].acc) /\ (Out(c) \/ At(c, "drop"))
<1>1. crawler[c].at = "look" /\ crawler[c].acc \in Accounts
  BY DEF Look, HealthTypes, Holds
<1>2. CASE MayUse(crawler[c].acc)
  <2>1. GotoC(c, [crawler[c] EXCEPT !.at = "keep"])
    BY <1>2 DEF Look
  <2> QED
    BY <1>1, <1>2, <2>1, GotoAt DEF MayUse, Places
<1>3. CASE ~MayUse(crawler[c].acc) /\ c \in Searchers
  <2>1. GotoC(c, Again(c))
    BY <1>3 DEF Look
  <2> QED
    BY <1>3, <2>1, AgainFacts, GotoCFacts DEF MayUse, Out
<1>4. CASE ~MayUse(crawler[c].acc) /\ c \notin Searchers
  <2>1. GotoC(c, [crawler[c] EXCEPT !.at = "drop"])
    BY <1>4 DEF Look
  <2> QED
    BY <1>1, <1>4, <2>1, GotoAt DEF MayUse, Places
<1> QED
  BY <1>2, <1>3, <1>4

LEMMA DropMove ==
  ASSUME HealthTypes, NEW c \in Crawlers, Drop(c) \/ Zrem(c)
  PROVE  Out(c) /\ crawler[c].acc \in Accounts /\ Remove(crawler[c].acc)
BY AgainFacts, CallFacts, GotoCFacts DEF Drop, Zrem, Out, HealthTypes, Holds

LEMMA KeepMove ==
  ASSUME HealthTypes, NEW c \in Crawlers, Keep(c)
  PROVE  /\ At(c, "use") /\ crawler[c].acc \in Accounts
         /\ \E s \in Int : Zadd1(crawler[c].acc, s)
<1>1. crawler[c].acc \in Accounts /\ crawler[c].score \in Int
  BY DEF Keep, HealthTypes, Holds, Calling
<1>2. Most(0, crawler[c].score - 1) \in Int
  BY <1>1 DEF Most
<1>3. \E s \in Int : Zadd1(crawler[c].acc, s)
  BY <1>1, <1>2 DEF Keep, PutBack
<1> QED
  BY <1>1, <1>3, CallFacts, GotoCFacts DEF Keep, At, Places, Holds

LEMMA UseMove ==
  ASSUME HealthTypes, NEW c \in Crawlers, Done(c) \/ Deduct(c) \/ Clamp(c)
  PROVE  /\ Out(c) \/ At(c, "clamp")
         /\ \/ UNCHANGED <<score, unsynced>>
            \/ crawler[c].acc \in Accounts /\ \E s \in Int : Zadd1(crawler[c].acc, s)
<1>1. CASE Done(c)
  BY <1>1, CallFacts, GotoCFacts DEF Done, Out
<1>2. CASE Deduct(c)
  <2> DEFINE s == (IF Queued(crawler[c].acc) THEN score[crawler[c].acc] ELSE 0) - 1
  <2>1. crawler[c].acc \in Accounts /\ s \in Int
    BY <1>2 DEF Deduct, HealthTypes, Holds, TypeOK, Queued
  <2>3. Zadd1(crawler[c].acc, s)
    BY <1>2 DEF Deduct
  <2>4. GotoC(c, IF s < 0 THEN [crawler[c] EXCEPT !.at = "clamp"] ELSE CrawlerIdle)
    BY <1>2 DEF Deduct
  <2> HIDE DEF s
  <2>5. CASE s < 0
    <3>1. GotoC(c, [crawler[c] EXCEPT !.at = "clamp"])
      BY <2>4, <2>5
    <3>2. At(c, "clamp")
      BY <2>1, <3>1, GotoAt DEF Places
    <3> QED
      BY <2>1, <2>3, <3>2
  <2>6. CASE ~(s < 0)
    BY <2>1, <2>3, <2>4, <2>6, CallFacts, GotoCFacts DEF Out
  <2> QED
    BY <2>5, <2>6
<1>3. CASE Clamp(c)
  BY <1>3, CallFacts, GotoCFacts DEF Clamp, Out, HealthTypes, Holds
<1> QED
  BY <1>1, <1>2, <1>3

LEMMA FindExpiredMove ==
  ASSUME HealthTypes, NEW c \in Crawlers, FindExpired(c)
  PROVE  /\ crawler[c].acc \in Accounts
         /\ At(c, "suspend") \/ (At(c, "zrem") /\ ~Active(crawler[c].acc))
<1>1. crawler[c].acc \in Accounts
  BY DEF FindExpired, HealthTypes, Holds
<1>2. CASE Exists(crawler[c].acc)
  <2>1. GotoC(c, [crawler[c] EXCEPT !.at = "suspend"])
    BY <1>2 DEF FindExpired
  <2> QED
    BY <1>1, <2>1, GotoAt DEF Places
<1>3. CASE ~Exists(crawler[c].acc)
  <2>1. GotoC(c, [crawler[c] EXCEPT !.at = "zrem"])
    BY <1>3 DEF FindExpired
  <2> QED
    BY <1>1, <1>3, <2>1, GotoAt DEF Places, Exists, Active
<1> QED
  BY <1>2, <1>3

LEMMA ExpireMove ==
  ASSUME HealthTypes, NEW c \in Crawlers, MarkExpired(c)
  PROVE  At(c, "zrem") /\ crawler[c].acc \in Accounts
<1>1. crawler[c].acc \in Accounts
  BY DEF MarkExpired, HealthTypes, Holds
<1>2. GotoC(c, [crawler[c] EXCEPT !.at = "zrem"])
  BY DEF MarkExpired
<1> QED
  BY <1>1, <1>2, GotoAt DEF Places

LEMMA CrashMove ==
  ASSUME HealthTypes, NEW c \in Crawlers, Crash(c)
  PROVE  Out(c) /\ (InHand(c) => crawler[c].acc \in Accounts)
BY CallFacts, GotoCFacts DEF Crash, Out, InHand, HealthTypes, Holds
-----------------------------------------------------------------------------
(* Types. *)
Rows == /\ status' \in [Accounts -> Statuses] /\ unsynced' \subseteq Accounts
        /\ retired' \in [Crawlers -> SUBSET Accounts]
Ranks == DOMAIN score' \subseteq Accounts /\ \A a \in DOMAIN score' : score'[a] \in Int
Daemons == <<starter, recovery, validation, check>>

LEMMA TypesOfCrawler ==
  ASSUME HealthTypes, NEW c \in Crawlers, OthersC(c), Rows, Ranks, UNCHANGED Daemons
  PROVE  HealthTypes'
<1>1. crawler' \in [Crawlers -> Calling] /\ \A d \in Crawlers : Holds(crawler'[d])
  BY DEF OthersC, HealthTypes
<1>2. \A d \in Crawlers : crawler'[d].acc \in Accounts \cup {None}
  BY <1>1 DEF Calling
<1> QED
  BY <1>1, <1>2 DEF HealthTypes, TypeOK, Rows, Ranks, Daemons

LEMMA SaveRows ==
  ASSUME TypeOK, NEW a \in Accounts, NEW st \in Statuses, SaveStatus(a, st)
  PROVE  Rows
BY SaveFacts DEF Rows

LEMMA ZaddOne ==
  ASSUME TypeOK, NEW a \in Accounts, NEW s \in Int, Zadd1(a, s)
  PROVE  /\ Ranks /\ unsynced' \subseteq Accounts
         /\ \A x : Queued(x) \/ x = a => Queued(x)'
         /\ \A x \in unsynced : x \in unsynced' \/ (Queued(x)' /\ ~Removing(x))
<1> DEFINE new == [x \in {a} |-> s]
<1>1. Scores(new) /\ DOMAIN new = {a} /\ Zadd(new)
  BY OneScore DEF Zadd1
<1> HIDE DEF new
<1> QED
  BY <1>1, ZaddFacts DEF Ranks

LEMMA CrawlerTypes ==
  ASSUME HealthTypes, NEW c \in Crawlers,
         \/ Select(c) \/ Pop(c) \/ NoAccount(c) \/ Fill(c) \/ Look(c) \/ Drop(c)
         \/ Keep(c) \/ Done(c) \/ Deduct(c) \/ Clamp(c) \/ FindExpired(c)
         \/ MarkExpired(c) \/ Zrem(c) \/ Crash(c)
  PROVE  HealthTypes'
<1>1. TypeOK /\ UNCHANGED Daemons
  BY DEF HealthTypes, Daemons, daemons, Select, Pop, NoAccount, Fill, Look, Drop, Keep, Done, Deduct, Clamp,
         FindExpired, MarkExpired, Zrem, Crash
<1>2. UNCHANGED <<status, retired>> => status' \in [Accounts -> Statuses] /\ retired' \in [Crawlers -> SUBSET Accounts]
  BY <1>1 DEF TypeOK
<1>3. UNCHANGED score => Ranks
  BY <1>1 DEF TypeOK, Ranks
<1>4. UNCHANGED unsynced => unsynced' \subseteq Accounts
  BY <1>1 DEF TypeOK
<1>5. CASE Select(c)
  <2>1. retired' \in [Crawlers -> SUBSET Accounts] /\ status' \in [Accounts -> Statuses]
    BY <1>1, <1>5 DEF Select, TypeOK
  <2> QED
    BY <1>1, <1>3, <1>4, <1>5, <2>1, SelectMove, TypesOfCrawler DEF Select, Rows, Out
<1>6. CASE Pop(c)
  <2>1. Ranks /\ OthersC(c)
    BY <1>1, <1>6, PopMove, RemoveFacts DEF Ranks
  <2> QED
    BY <1>1, <1>2, <1>4, <1>6, <2>1, TypesOfCrawler DEF Pop, Rows
<1>7. CASE NoAccount(c)
  BY <1>1, <1>2, <1>3, <1>4, <1>7, NoAccountMove, TypesOfCrawler DEF NoAccount, Rows, Out
<1>8. CASE Fill(c)
  <2>1. OthersC(c) /\ Ranks /\ unsynced' \subseteq Accounts
    BY <1>1, <1>3, <1>4, <1>8, FillMove, ZaddFacts DEF Ranks, Out
  <2> QED
    BY <1>1, <1>2, <1>8, <2>1, TypesOfCrawler DEF Fill, Rows
<1>9. CASE Look(c)
  <2>1. OthersC(c)
    BY <1>9, LookMove DEF Out, At
  <2> QED
    BY <1>1, <1>2, <1>3, <1>4, <1>9, <2>1, TypesOfCrawler DEF Look, Rows
<1>10. CASE Drop(c) \/ Zrem(c)
  <2>1. OthersC(c) /\ Ranks
    BY <1>1, <1>10, DropMove, RemoveFacts DEF Out, Ranks
  <2> QED
    BY <1>1, <1>2, <1>4, <1>10, <2>1, TypesOfCrawler DEF Drop, Zrem, Rows
<1>11. CASE Keep(c)
  <2>1. OthersC(c) /\ Ranks /\ unsynced' \subseteq Accounts
    BY <1>1, <1>11, KeepMove, ZaddOne DEF At
  <2>2. retired' \in [Crawlers -> SUBSET Accounts] /\ status' \in [Accounts -> Statuses]
    BY <1>1, <1>11 DEF Keep, TypeOK
  <2> QED
    BY <1>1, <2>1, <2>2, TypesOfCrawler DEF Rows
<1>12. CASE Done(c) \/ Deduct(c) \/ Clamp(c)
  <2>1. OthersC(c)
    BY <1>12, UseMove DEF Out, At
  <2>2. Ranks /\ unsynced' \subseteq Accounts
    BY <1>1, <1>3, <1>4, <1>12, UseMove, ZaddOne
  <2> QED
    BY <1>1, <1>2, <1>12, <2>1, <2>2, TypesOfCrawler DEF Done, Deduct, Clamp, Rows
<1>13. CASE MarkExpired(c)
  <2>1. OthersC(c) /\ crawler[c].acc \in Accounts
    BY <1>13, ExpireMove DEF At
  <2>2. Rows
    BY <1>1, <1>13, <2>1, SaveRows DEF MarkExpired, Statuses
  <2> QED
    BY <1>1, <1>3, <1>13, <2>1, <2>2, TypesOfCrawler DEF MarkExpired
<1>14. CASE Crash(c)
  <2>1. OthersC(c) /\ unsynced' \subseteq Accounts
    BY <1>1, <1>14, CrashMove DEF Crash, Out, TypeOK
  <2> QED
    BY <1>1, <1>2, <1>3, <1>14, <2>1, TypesOfCrawler DEF Crash, Rows
<1>15. CASE FindExpired(c)
  <2>1. OthersC(c) /\ crawler[c].acc \in Accounts
    BY <1>15, FindExpiredMove DEF At
  <2> QED
    BY <1>1, <1>2, <1>3, <1>15, <2>1, TypesOfCrawler DEF FindExpired, Rows, TypeOK
<1> QED
  BY <1>5, <1>6, <1>7, <1>8, <1>9, <1>10, <1>11, <1>12, <1>13, <1>14, <1>15

(* A daemon writes scores or nothing.                                       *)
Ranking == UNCHANGED <<score, unsynced>> \/ \E new : Scores(new) /\ Zadd(new)
DaemonTyped ==
  /\ starter'.todo \subseteq Accounts
  /\ recovery'.todo \subseteq Accounts /\ Scores(recovery'.new)
  /\ validation' \in Validating
  /\ validation'.at \in {"zscore", "zadd"} => validation'.acc \in Accounts
  /\ check'.at # "idle" => check'.acc \in Accounts
  /\ check'.status \in Statuses

LEMMA DaemonKept ==
  HealthTypes =>
    /\ UNCHANGED starter => starter'.todo \subseteq Accounts
    /\ UNCHANGED recovery => recovery'.todo \subseteq Accounts /\ Scores(recovery'.new)
    /\ UNCHANGED validation =>
         /\ validation' \in Validating
         /\ validation'.at \in {"zscore", "zadd"} => validation'.acc \in Accounts
    /\ UNCHANGED check =>
         (check'.at # "idle" => check'.acc \in Accounts) /\ check'.status \in Statuses
BY DEF HealthTypes

LEMMA StarterMove ==
  ASSUME HealthTypes, Starter
  PROVE  DaemonTyped /\ Ranking
<1>1. starter'.todo \subseteq Accounts
  BY DEF Starter, Sync, DaemonAt, DaemonIdle, HealthTypes
<1>2. UNCHANGED <<score, unsynced>> \/ Zadd([a \in starter.todo |-> MaxScore])
  BY DEF Starter, Sync
<1>3. Scores([a \in starter.todo |-> MaxScore])
  BY AccountHealthAssumption DEF AccountHealthAssumption, HealthTypes, Scores
<1> QED
  BY <1>1, <1>2, <1>3, DaemonKept DEF Starter, DaemonTyped, Ranking

LEMMA RecoveryMove ==
  ASSUME HealthTypes, Recovery
  PROVE  DaemonTyped /\ Ranking
<1>1. CASE recovery.at = "idle"
  BY <1>1, DaemonKept DEF Recovery, Recover, DaemonTyped, Ranking, DaemonAt, Scores, Empty
<1>2. CASE recovery.at = "scores"
  <2> DEFINE now(a) == IF Queued(a) THEN score[a] ELSE 0
             up(a)  == Least(now(a) + Recovered, MaxScore)
             new == [a \in {x \in recovery.todo : up(x) # now(x)} |-> up(a)]
  <2>1. recovery' = DaemonAt("exec", {}, new) /\ UNCHANGED <<score, unsynced>>
    BY <1>2 DEF Recovery, Recover
  <2>2. \A a \in Accounts : now(a) \in Int
    BY DEF HealthTypes, TypeOK, Queued
  <2>3. \A a \in Accounts : up(a) \in Int
    <3> HIDE DEF now
    <3> QED
      BY <2>2, LeastMostInt, AccountHealthAssumption DEF AccountHealthAssumption
  <2>4. DOMAIN new \subseteq Accounts
    BY DEF HealthTypes
  <2>5. \A a \in DOMAIN new : new[a] \in Int
    <3> HIDE DEF up, now
    <3> QED
      BY <2>3, <2>4
  <2>6. recovery'.todo \subseteq Accounts /\ Scores(recovery'.new)
    <3> HIDE DEF new
    <3> QED
      BY <2>1, <2>4, <2>5 DEF DaemonAt, Scores
  <2> QED
    <3> HIDE DEF new
    <3> QED
      BY <2>1, <2>6, DaemonKept DEF Recovery, DaemonTyped, Ranking
<1>3. CASE recovery.at = "exec"
  <2>1. Zadd(recovery.new) /\ Scores(recovery.new) /\ recovery' = DaemonIdle
    BY <1>3 DEF Recovery, Recover, HealthTypes
  <2>2. recovery'.todo \subseteq Accounts /\ Scores(recovery'.new)
    BY <2>1 DEF DaemonIdle, DaemonAt, Scores, Empty
  <2> QED
    BY <2>1, <2>2, DaemonKept DEF Recovery, DaemonTyped, Ranking
<1> QED
  BY <1>1, <1>2, <1>3 DEF Recovery, Recover

LEMMA ValidationMove ==
  ASSUME HealthTypes, Validation
  PROVE  DaemonTyped /\ Ranking
<1> DEFINE Typed == /\ validation' \in Validating
                    /\ validation'.at \in {"zscore", "zadd"} => validation'.acc \in Accounts
<1> USE AccountHealthAssumption DEF AccountHealthAssumption
<1>0. validation \in Validating /\ ValidationIdle \in Validating
  BY DEF HealthTypes, Validating, ValidationIdle, ValidationAt
<1>1. CASE validation.at = "idle"
  <2>1. validation' = ValidationAt("next", {a \in Accounts : Active(a)}, None, 0) /\ UNCHANGED <<score, unsynced>>
    BY <1>1 DEF Validation
  <2> QED
    BY <2>1, DaemonKept DEF Validation, ValidationAt, Validating, DaemonTyped, Ranking
<1>2. CASE validation.at = "next"
  <2>1. PICK a \in validation.todo : \E delta \in {Validated, -Validated} :
               validation' = ValidationAt("zscore", validation.todo \ {a}, a, delta)
    BY <1>2 DEF Validation
  <2>2. Typed
    BY <1>0, <2>1 DEF ValidationAt, Validating
  <2> QED
    BY <1>2, <2>2, DaemonKept DEF Validation, DaemonTyped, Ranking
<1>3. CASE validation.at = "zscore"
  <2> DEFINE base == IF Queued(validation.acc) THEN score[validation.acc] ELSE MaxScore
             s == Most(0, Least(MaxScore, base + validation.by))
  <2>1. validation' = [[validation EXCEPT !.at = "zadd"] EXCEPT !.by = s]
    BY <1>0, <1>3 DEF Validation, Validating
  <2>2. base \in Int /\ validation.by \in Int /\ validation.acc \in Accounts
    BY <1>0, <1>3 DEF HealthTypes, TypeOK, Validating, Queued
  <2>3. s \in Int
    <3> HIDE DEF base
    <3> QED
      BY <2>2 DEF Least, Most
  <2>4. Typed
    <3> HIDE DEF s
    <3> QED
      BY <1>0, <2>1, <2>2, <2>3 DEF Validating
  <2> QED
    <3> HIDE DEF s
    <3> QED
      BY <1>3, <2>4, DaemonKept DEF Validation, DaemonTyped, Ranking
<1>4. CASE validation.at = "zadd"
  <2>1. validation.acc \in Accounts /\ validation.by \in Int
    BY <1>0, <1>4 DEF HealthTypes, Validating
  <2>2. Zadd([x \in {validation.acc} |-> validation.by])
    BY <1>4 DEF Validation, AddValidated, Zadd1
  <2>3. validation' = ValidationIdle \/ validation' = ValidationAt("next", validation.todo, None, 0)
    BY <1>4 DEF Validation
  <2>4. Typed
    BY <1>0, <2>3 DEF ValidationIdle, ValidationAt, Validating
  <2>5. Ranking
    BY <2>1, <2>2, OneScore DEF Ranking
  <2> QED
    BY <2>4, <2>5, DaemonKept DEF Validation, DaemonTyped
<1> QED
  BY <1>0, <1>1, <1>2, <1>3, <1>4 DEF Validating

LEMMA CheckMove ==
  ASSUME HealthTypes, Check
  PROVE  /\ DaemonTyped
         /\ \/ UNCHANGED <<status, unsynced, retired>>
            \/ \E a \in Accounts, st \in Statuses : SaveStatus(a, st)
<1>1. CASE check.at = "idle"
  <2>1. check'.acc \in Accounts /\ check'.status \in Statuses
    BY <1>1 DEF Check, CheckAt, HealthTypes, TypeOK
  <2> QED
    BY <1>1, <2>1, DaemonKept DEF Check, DaemonTyped
<1>2. CASE check.at = "weibo"
  <2>1. check'.acc \in Accounts /\ check'.status \in Statuses
    BY <1>2 DEF Check, CheckAt, HealthTypes, Statuses
  <2> QED
    BY <1>2, <2>1, DaemonKept DEF Check, DaemonTyped
<1>3. CASE check.at = "save"
  <2>1. SaveStatus(check.acc, check.status) /\ check.acc \in Accounts /\ check.status \in Statuses
    BY <1>3 DEF Check, HealthTypes
  <2>2. check' = CheckIdle
    BY <1>3 DEF Check
  <2>3. check'.at = "idle" /\ check'.status \in Statuses
    BY <2>2 DEF CheckIdle, CheckAt, Statuses
  <2> QED
    BY <2>1, <2>3, DaemonKept DEF Check, DaemonTyped
<1> QED
  BY <1>1, <1>2, <1>3 DEF Check

LEMMA TypesStep == HealthTypes /\ [Next]_vars => HealthTypes'
<1> SUFFICES ASSUME HealthTypes, [Next]_vars
             PROVE  HealthTypes'
  OBVIOUS
<1>1. TypeOK
  BY DEF HealthTypes
<1>2. UNCHANGED crawler => crawler' \in [Crawlers -> Calling] /\ \A c \in Crawlers : Holds(crawler'[c])
  BY DEF HealthTypes
<1>3. ASSUME DaemonTyped, Rows, Ranks, UNCHANGED crawler
      PROVE  HealthTypes'
  BY <1>2, <1>3 DEF HealthTypes, TypeOK, DaemonTyped, Rows, Ranks
<1>4. UNCHANGED <<status, unsynced, retired>> => Rows
  BY <1>1 DEF TypeOK, Rows
<1>5. UNCHANGED score => Ranks
  BY <1>1 DEF TypeOK, Ranks
<1>6. CASE Starter \/ Recovery \/ Validation
  <2>1. DaemonTyped /\ Ranking
    BY <1>6, StarterMove, RecoveryMove, ValidationMove
  <2>2. Ranks /\ unsynced' \subseteq Accounts
    BY <1>1, <2>1, ZaddFacts DEF Ranking, Ranks, TypeOK
  <2>3. UNCHANGED <<crawler, status, retired>>
    BY <1>6 DEF Starter, Recovery, Validation
  <2> QED
    BY <1>1, <1>3, <2>1, <2>2, <2>3 DEF Rows, TypeOK
<1>7. CASE Check
  <2>1. Rows
    BY <1>1, <1>4, <1>7, CheckMove, SaveRows
  <2> QED
    BY <1>3, <1>5, <1>7, <2>1, CheckMove DEF Check
<1>8. ASSUME NEW a \in Accounts, Login(a) \/ Delete(a) \/ Ban(a)
      PROVE  HealthTypes'
  <2>1. \E st \in Statuses : SaveStatus(a, st)
    BY <1>8 DEF Login, Delete, Ban, Statuses
  <2>2. Rows
    BY <1>1, <2>1, SaveRows
  <2>3. DaemonTyped
    BY <1>8, DaemonKept DEF Login, Delete, Ban, daemons, DaemonTyped
  <2> QED
    BY <1>3, <1>5, <1>8, <2>2, <2>3 DEF Login, Delete, Ban
<1>9. CASE UNCHANGED vars
  BY <1>3, <1>4, <1>5, <1>9, DaemonKept DEF vars, DaemonTyped
<1> QED
  BY <1>6, <1>7, <1>8, <1>9, CrawlerTypes DEF Next

-----------------------------------------------------------------------------
(* Nobody is lost. *)

\* Where an active account may be.
Safe(a) == \/ Queued(a) \/ a \in unsynced
           \/ \E c \in Crawlers : crawler[c].acc = a /\ InHand(c)

LEMMA LostStep == HealthInv /\ [Next]_vars => NoneLost' /\ OutgoingWait'
<1> SUFFICES ASSUME HealthInv, [Next]_vars
             PROVE  NoneLost' /\ OutgoingWait'
  OBVIOUS
<1>1. HealthTypes /\ TypeOK /\ NoneLost /\ OutgoingWait
  BY DEF HealthInv, HealthTypes
<1>2. ASSUME UNCHANGED <<status, unsynced>>, NEW c \in Crawlers, OthersC(c),
             crawler'[c].at \in {"drop", "zrem"} /\ Active(crawler'[c].acc) => crawler'[c].acc \in unsynced
      PROVE  OutgoingWait'
  BY <1>1, <1>2 DEF OutgoingWait, OthersC, Active
\* What a step takes from an active account is its place in the set, its hand
\* or its wait, and then it gives it another.
<1>3. ASSUME status' = status,
             \A a \in Accounts : Active(a) /\ Safe(a) => Safe(a)'
      PROVE  NoneLost'
  BY <1>1, <1>3 DEF NoneLost, Safe, Active
<1>4. ASSUME Ranking, UNCHANGED <<status, crawler>>
      PROVE  NoneLost' /\ OutgoingWait'
  <2>1. /\ \A a : Queued(a) => Queued(a)'
        /\ \A a \in unsynced : a \in unsynced' \/ (Queued(a)' /\ ~Removing(a))
    BY <1>1, <1>4, ZaddFacts DEF Ranking, Queued
  <2>2. NoneLost'
    BY <1>3, <1>4, <2>1 DEF Safe, InHand
  <2>3. \A c \in Crawlers : crawler[c].at \in {"drop", "zrem"} => Removing(crawler[c].acc)
    BY DEF Removing
  <2> QED
    BY <1>1, <1>4, <2>1, <2>2, <2>3 DEF OutgoingWait, Active
<1>5. ASSUME NEW a \in Accounts, NEW st \in Statuses, SaveStatus(a, st), UNCHANGED <<score, crawler>>
      PROVE  NoneLost' /\ OutgoingWait'
  <2>1. /\ unsynced \subseteq unsynced'
        /\ \A x \in Accounts : Active(x)' => Active(x) \/ x \in unsynced'
    BY <1>1, <1>5, SaveFacts
  <2>2. NoneLost'
    BY <1>1, <1>5, <2>1 DEF NoneLost, Queued, InHand
  <2>3. \A c \in Crawlers : crawler[c].at \in {"drop", "zrem"} => crawler[c].acc \in Accounts
    BY <1>1 DEF HealthTypes, Holds
  <2> QED
    BY <1>1, <1>5, <2>1, <2>2, <2>3 DEF OutgoingWait
<1>6. CASE UNCHANGED vars
  BY <1>1, <1>6 DEF vars, NoneLost, OutgoingWait, Active, Queued, InHand
<1>7. CASE Starter \/ Recovery \/ Validation
  <2>1. Ranking
    BY <1>1, <1>7, StarterMove, RecoveryMove, ValidationMove
  <2> QED
    BY <1>4, <1>7, <2>1 DEF Starter, Recovery, Validation
<1>8. CASE Check
  BY <1>1, <1>4, <1>5, <1>8, CheckMove DEF Check, Ranking
<1>9. ASSUME NEW a \in Accounts, Login(a) \/ Delete(a) \/ Ban(a)
      PROVE  NoneLost' /\ OutgoingWait'
  BY <1>5, <1>9 DEF Login, Delete, Ban, Statuses
\* A crawler without an account in hand that leaves the set as it is.
<1>10. ASSUME NEW c \in Crawlers, OthersC(c), ~InHand(c), UNCHANGED <<status, score, unsynced>>,
              crawler'[c].at \notin {"drop", "zrem"}
      PROVE  NoneLost' /\ OutgoingWait'
  <2>1. \A a \in Accounts : Active(a) /\ Safe(a) => Safe(a)'
    BY <1>10 DEF Safe, Queued, InHand, OthersC
  <2> QED
    BY <1>2, <1>3, <1>10, <2>1
\* A crawler that adds the account it has, or nothing.
<1>11. ASSUME NEW c \in Crawlers, OthersC(c), crawler'[c].at \notin {"drop", "zrem"}, status' = status,
              \/ UNCHANGED <<score, unsynced>> /\ ~InHand(c)
              \/ crawler[c].acc \in Accounts /\ \E s \in Int : Zadd1(crawler[c].acc, s)
      PROVE  NoneLost' /\ OutgoingWait'
  <2>1. CASE UNCHANGED <<score, unsynced>> /\ ~InHand(c)
    BY <1>10, <1>11, <2>1
  <2>2. CASE crawler[c].acc \in Accounts /\ \E s \in Int : Zadd1(crawler[c].acc, s)
    <3>1. /\ \A a : Queued(a) \/ a = crawler[c].acc => Queued(a)'
          /\ \A a \in unsynced : a \in unsynced' \/ (Queued(a)' /\ ~Removing(a))
      BY <1>1, <2>2, ZaddOne
    <3>2. \A a \in Accounts : Active(a) /\ Safe(a) => Safe(a)'
      BY <1>11, <3>1 DEF Safe, InHand, OthersC
    <3>3. \A d \in Crawlers : d # c /\ crawler[d].at \in {"drop", "zrem"} => Removing(crawler[d].acc)
      BY DEF Removing
    <3>4. OutgoingWait'
      BY <1>1, <1>11, <3>1, <3>3 DEF OutgoingWait, OthersC, Active
    <3> QED
      BY <1>3, <1>11, <3>2, <3>4
  <2> QED
    BY <1>11, <2>1, <2>2
<1>12. ASSUME NEW c \in Crawlers, Select(c) \/ NoAccount(c)
      PROVE  NoneLost' /\ OutgoingWait'
  <2>1. Out(c)
    BY <1>1, <1>12, SelectMove, NoAccountMove
  <2> QED
    BY <1>10, <1>12, <2>1 DEF Select, NoAccount, Out, InHand
<1>13. ASSUME NEW c \in Crawlers, Pop(c)
      PROVE  NoneLost' /\ OutgoingWait'
  <2>1. PICK a \in Accounts : Remove(a) /\ OthersC(c) /\ crawler'[c].at = "look" /\ crawler'[c].acc = a
    BY <1>1, <1>13, PopMove
  <2>2. \A x : x # a => (Queued(x)' <=> Queued(x))
    BY <1>1, <2>1, RemoveFacts
  <2>3. ~InHand(c) /\ UNCHANGED <<status, unsynced>>
    BY <1>13 DEF Pop, InHand
  <2>4. \A x \in Accounts : Active(x) /\ Safe(x) => Safe(x)'
    BY <2>1, <2>2, <2>3 DEF Safe, InHand, OthersC
  <2> QED
    BY <1>2, <1>3, <2>1, <2>3, <2>4
<1>14. ASSUME NEW c \in Crawlers, Fill(c)
      PROVE  NoneLost' /\ OutgoingWait'
  <2>1. Out(c) /\ Ranking /\ status' = status /\ ~InHand(c)
    BY <1>1, <1>14, FillMove DEF Fill, Ranking, InHand
  <2>2. /\ \A a : Queued(a) => Queued(a)'
        /\ \A a \in unsynced : a \in unsynced' \/ (Queued(a)' /\ ~Removing(a))
    BY <1>1, <2>1, ZaddFacts DEF Ranking, Queued
  <2>3. \A a \in Accounts : Active(a) /\ Safe(a) => Safe(a)'
    BY <2>1, <2>2 DEF Safe, InHand, Out, OthersC
  <2>4. \A d \in Crawlers : crawler[d].at \in {"drop", "zrem"} => Removing(crawler[d].acc)
    BY DEF Removing
  <2>5. OutgoingWait'
    BY <1>1, <2>1, <2>2, <2>4 DEF OutgoingWait, Out, OthersC, Active
  <2> QED
    BY <1>3, <2>1, <2>3, <2>5
<1>15. ASSUME NEW c \in Crawlers, Look(c)
      PROVE  NoneLost' /\ OutgoingWait'
  <2>1. UNCHANGED <<status, score, unsynced>> /\ OthersC(c)
    BY <1>1, <1>15, LookMove DEF Look, Out, At
  <2>2. \/ Active(crawler[c].acc) /\ At(c, "keep")
        \/ ~Active(crawler[c].acc) /\ (Out(c) \/ At(c, "drop"))
    BY <1>1, <1>15, LookMove
  <2>3. \A a \in Accounts : Active(a) /\ Safe(a) => Safe(a)'
    BY <2>1, <2>2 DEF Safe, InHand, OthersC, Queued, At
  <2> QED
    BY <1>2, <1>3, <2>1, <2>2, <2>3 DEF Out, At
<1>16. ASSUME NEW c \in Crawlers, Drop(c) \/ Zrem(c)
      PROVE  NoneLost' /\ OutgoingWait'
  <2>1. Out(c) /\ crawler[c].acc \in Accounts /\ Remove(crawler[c].acc)
    BY <1>1, <1>16, DropMove
  <2>2. \A x : x # crawler[c].acc => (Queued(x)' <=> Queued(x))
    BY <1>1, <2>1, RemoveFacts
  <2>3. UNCHANGED <<status, unsynced>> /\ (Active(crawler[c].acc) => crawler[c].acc \in unsynced)
    BY <1>1, <1>16 DEF Drop, Zrem, OutgoingWait
  <2>4. \A x \in Accounts : Active(x) /\ Safe(x) => Safe(x)'
    BY <2>1, <2>2, <2>3 DEF Safe, InHand, Out, OthersC
  <2> QED
    BY <1>2, <1>3, <2>1, <2>3, <2>4 DEF Out
<1>17. ASSUME NEW c \in Crawlers, Keep(c)
      PROVE  NoneLost' /\ OutgoingWait'
  <2>1. /\ At(c, "use") /\ crawler[c].acc \in Accounts
        /\ \E s \in Int : Zadd1(crawler[c].acc, s)
    BY <1>1, <1>17, KeepMove
  <2> QED
    BY <1>11, <1>17, <2>1 DEF Keep, At
<1>18. ASSUME NEW c \in Crawlers, Done(c) \/ Deduct(c) \/ Clamp(c)
      PROVE  NoneLost' /\ OutgoingWait'
  <2>1. ~InHand(c) /\ status' = status
    BY <1>18 DEF Done, Deduct, Clamp, InHand
  <2>2. OthersC(c) /\ crawler'[c].at \notin {"drop", "zrem"}
    BY <1>1, <1>18, UseMove DEF Out, At
  <2> QED
    BY <1>1, <1>11, <1>18, <2>1, <2>2, UseMove
<1>19. ASSUME NEW c \in Crawlers, MarkExpired(c)
      PROVE  NoneLost' /\ OutgoingWait'
  <2>1. At(c, "zrem") /\ crawler[c].acc \in Accounts /\ ~InHand(c) /\ score' = score
    BY <1>1, <1>19, ExpireMove DEF MarkExpired, InHand
  <2>2. SaveStatus(crawler[c].acc, "inactive") /\ "inactive" \in Statuses
    BY <1>19 DEF MarkExpired, Statuses
  <2>3. /\ unsynced \subseteq unsynced'
        /\ \A x \in Accounts : Active(x)' => Active(x) \/ x \in unsynced'
    BY <1>1, <2>1, <2>2, SaveFacts
  <2>4. status'[crawler[c].acc] # "active"
    BY <1>1, <2>1, <2>2 DEF SaveStatus, TypeOK, Active
  <2>5. NoneLost'
    BY <1>1, <2>1, <2>3 DEF NoneLost, Queued, InHand, At, OthersC
  <2>6. \A d \in Crawlers : crawler[d].at \in {"drop", "zrem"} => crawler[d].acc \in Accounts
    BY <1>1 DEF HealthTypes, Holds
  <2>7. OutgoingWait'
    BY <1>1, <2>1, <2>3, <2>4, <2>6 DEF OutgoingWait, At, OthersC, Active
  <2> QED
    BY <2>5, <2>7
<1>20. ASSUME NEW c \in Crawlers, Crash(c)
      PROVE  NoneLost' /\ OutgoingWait'
  <2>1. Out(c) /\ UNCHANGED <<status, score>> /\ unsynced \subseteq unsynced'
    BY <1>1, <1>20, CrashMove DEF Crash
  <2>2. InHand(c) => Queued(crawler[c].acc) \/ crawler[c].acc \in unsynced'
    BY <1>20 DEF Crash
  <2>3. \A a \in Accounts : Active(a) /\ Safe(a) => Safe(a)'
    BY <2>1, <2>2 DEF Safe, InHand, Out, OthersC, Queued
  <2>4. OutgoingWait'
    BY <1>1, <2>1 DEF OutgoingWait, Out, OthersC, Active
  <2> QED
    BY <1>3, <2>1, <2>3, <2>4
<1>21. ASSUME NEW c \in Crawlers, FindExpired(c)
      PROVE  NoneLost' /\ OutgoingWait'
  <2>1. UNCHANGED <<status, score, unsynced>> /\ ~InHand(c)
    BY <1>21 DEF FindExpired, InHand
  <2>2. At(c, "suspend") \/ (At(c, "zrem") /\ ~Active(crawler[c].acc))
    BY <1>1, <1>21, FindExpiredMove
  <2>3. \A a \in Accounts : Active(a) /\ Safe(a) => Safe(a)'
    BY <2>1, <2>2 DEF Safe, InHand, OthersC, Queued, At
  <2> QED
    BY <1>2, <1>3, <2>1, <2>2, <2>3 DEF At
<1> QED
  BY <1>6, <1>7, <1>8, <1>9, <1>12, <1>13, <1>14, <1>15, <1>16, <1>17, <1>18, <1>19, <1>20, <1>21 DEF Next
-----------------------------------------------------------------------------
(* Nobody retired is returned. *)
LEMMA RetiredStep == HealthInv /\ [Next]_vars => RetiredStayOut'
<1> SUFFICES ASSUME HealthInv, [Next]_vars
             PROVE  RetiredStayOut'
  OBVIOUS
<1>1. HealthTypes /\ TypeOK /\ RetiredStayOut
  BY DEF HealthInv, HealthTypes
<1>2. CASE UNCHANGED <<status, crawler, retired>>
  BY <1>1, <1>2 DEF RetiredStayOut, Active
<1>3. ASSUME NEW a \in Accounts, NEW st \in Statuses, SaveStatus(a, st)
      PROVE  /\ \A c \in Crawlers : \A x \in retired'[c] : ~Active(x)'
             /\ \A c \in Crawlers : retired'[c] \subseteq retired[c]
  <2>1. /\ \A c \in Crawlers : retired'[c] \subseteq retired[c]
        /\ \A c \in Crawlers : \A x \in retired'[c] : Active(x)' => Active(x)
    BY <1>1, <1>3, SaveFacts
  <2> QED
    BY <1>1, <2>1 DEF RetiredStayOut
<1>4. ASSUME NEW a \in Accounts, NEW st \in Statuses, SaveStatus(a, st), UNCHANGED crawler
      PROVE  RetiredStayOut'
  BY <1>1, <1>3, <1>4 DEF RetiredStayOut
<1>5. CASE Starter \/ Recovery \/ Validation
  BY <1>2, <1>5 DEF Starter, Recovery, Validation
<1>6. CASE Check
  BY <1>1, <1>2, <1>4, <1>6, CheckMove DEF Check
<1>7. ASSUME NEW a \in Accounts, Login(a) \/ Delete(a) \/ Ban(a)
      PROVE  RetiredStayOut'
  BY <1>4, <1>7 DEF Login, Delete, Ban, Statuses
<1>8. ASSUME NEW c \in Crawlers, OthersC(c), crawler'[c].at # "keep", UNCHANGED <<status, retired>>
      PROVE  RetiredStayOut'
  BY <1>1, <1>8 DEF RetiredStayOut, OthersC, Active
<1>9. ASSUME NEW c \in Crawlers, Select(c)
      PROVE  RetiredStayOut'
  <2>1. Out(c)
    BY <1>1, <1>9, SelectMove
  <2>2. retired' = [retired EXCEPT ![c] = {a \in Accounts : ~Active(a)}] /\ status' = status
    BY <1>9 DEF Select
  <2> QED
    BY <1>1, <2>1, <2>2 DEF RetiredStayOut, Out, OthersC, TypeOK, Active
<1>10. ASSUME NEW c \in Crawlers, Keep(c)
      PROVE  RetiredStayOut'
  <2>1. At(c, "use")
    BY <1>1, <1>10, KeepMove
  <2>2. retired' = [retired EXCEPT ![c] = {}] /\ status' = status
    BY <1>10 DEF Keep
  <2> QED
    BY <1>1, <2>1, <2>2 DEF RetiredStayOut, At, OthersC, TypeOK, Active
<1>11. ASSUME NEW c \in Crawlers, Look(c)
      PROVE  RetiredStayOut'
  <2>1. \/ Active(crawler[c].acc) /\ At(c, "keep")
        \/ ~Active(crawler[c].acc) /\ (Out(c) \/ At(c, "drop"))
    BY <1>1, <1>11, LookMove
  <2>2. UNCHANGED <<status, retired>>
    BY <1>11 DEF Look
  <2> QED
    BY <1>1, <2>1, <2>2 DEF RetiredStayOut, Out, At, OthersC, Active
<1>12. ASSUME NEW c \in Crawlers, MarkExpired(c)
      PROVE  RetiredStayOut'
  <2>1. At(c, "zrem") /\ crawler[c].acc \in Accounts
    BY <1>1, <1>12, ExpireMove
  <2>2. SaveStatus(crawler[c].acc, "inactive") /\ "inactive" \in Statuses
    BY <1>12 DEF MarkExpired, Statuses
  <2> QED
    BY <1>1, <1>3, <2>1, <2>2 DEF RetiredStayOut, At, OthersC
<1>13. ASSUME NEW c \in Crawlers, Pop(c)
      PROVE  RetiredStayOut'
  BY <1>1, <1>8, <1>13, PopMove DEF Pop
<1>14. ASSUME NEW c \in Crawlers, NoAccount(c) \/ Fill(c) \/ Drop(c) \/ Zrem(c) \/ Crash(c)
      PROVE  RetiredStayOut'
  <2>1. Out(c)
    BY <1>1, <1>14, NoAccountMove, FillMove, DropMove, CrashMove
  <2> QED
    BY <1>8, <1>14, <2>1 DEF NoAccount, Fill, Drop, Zrem, Crash, Out
<1>15. ASSUME NEW c \in Crawlers, Done(c) \/ Deduct(c) \/ Clamp(c)
      PROVE  RetiredStayOut'
  <2>1. OthersC(c) /\ crawler'[c].at # "keep"
    BY <1>1, <1>15, UseMove DEF Out, At
  <2> QED
    BY <1>8, <1>15, <2>1 DEF Done, Deduct, Clamp
<1>16. CASE UNCHANGED vars
  BY <1>2, <1>16 DEF vars
<1>17. ASSUME NEW c \in Crawlers, FindExpired(c)
      PROVE  RetiredStayOut'
  <2>1. OthersC(c) /\ crawler'[c].at # "keep"
    BY <1>1, <1>17, FindExpiredMove DEF At
  <2> QED
    BY <1>8, <1>17, <2>1 DEF FindExpired
<1> QED
  BY <1>5, <1>6, <1>7, <1>9, <1>10, <1>11, <1>12, <1>13, <1>14, <1>15, <1>16, <1>17 DEF Next

\* A call ends with an account only by Keep.
LEMMA KeptStep ==
  HealthInv /\ [Next]_vars =>
    \A c \in Crawlers : crawler[c].at = "keep" /\ crawler'[c].at = "use" => crawler[c].acc \notin retired[c]
BY DEF HealthInv, RetiredStayOut

(* The invariant. *)
LEMMA HealthInit == Init => HealthInv
<1> SUFFICES ASSUME Init
             PROVE  HealthInv
  OBVIOUS
<1>1. crawler \in [Crawlers -> Calling] /\ \A c \in Crawlers : crawler[c].at = "idle" /\ Holds(crawler[c])
  BY CallFacts DEF Init
<1>2. \A c \in Crawlers : crawler[c].acc \in Accounts \cup {None}
  BY <1>1 DEF Calling
<1>3. TypeOK
  BY <1>2 DEF Init, TypeOK, Statuses, Empty
<1>4. starter.todo \subseteq Accounts /\ recovery.todo \subseteq Accounts /\ Scores(recovery.new)
  BY DEF Init, DaemonIdle, DaemonAt, Scores, Empty
<1>5. validation \in Validating /\ validation.at = "idle"
  BY DEF Init, ValidationIdle, ValidationAt, Validating
<1>6. check.at = "idle" /\ check.status \in Statuses
  BY DEF Init, CheckIdle, CheckAt, Statuses
<1>7. HealthTypes
  BY <1>1, <1>3, <1>4, <1>5, <1>6 DEF HealthTypes
<1>8. NoneLost
  BY DEF Init, NoneLost
<1>9. OutgoingWait /\ RetiredStayOut
  BY <1>1 DEF Init, OutgoingWait, RetiredStayOut
<1> QED
  BY <1>7, <1>8, <1>9 DEF HealthInv

LEMMA HealthStep == HealthInv /\ [Next]_vars => HealthInv'
BY TypesStep, LostStep, RetiredStep DEF HealthInv

LEMMA HealthInvariant == Spec => []HealthInv
BY HealthInit, HealthStep, PTL DEF Spec

-----------------------------------------------------------------------------
(* The rows, the sorted set and the calls keep their types, for any number   *)
(* of accounts, crawlers, calls and crashes.                                 *)
THEOREM AccountsTypeCorrect == Spec => []TypeOK
BY HealthInvariant, PTL DEF HealthInv, HealthTypes

(* Taking out, putting back, removing and adding in any order, the crawlers  *)
(* and daemons of WeiboAccountService and AccountHealthService lose no       *)
(* active account.                                                           *)
THEOREM AccountsNoneLost == Spec => []NoneLost
BY HealthInvariant, PTL DEF HealthInv

(* selectBestAccount() and getBestHealthAccount() return no account that had *)
(* stopped being active before they were called.                             *)
THEOREM AccountsNoneRetired == Spec => NoneRetired
<1>1. HealthInv /\ [Next]_vars =>
        [\A c \in Crawlers :
           crawler[c].at = "keep" /\ crawler'[c].at = "use"
             => crawler[c].acc \notin retired[c]]_vars
  BY KeptStep
<1> QED
  BY <1>1, HealthInvariant, PTL DEF Spec, NoneRetired
=============================================================================
