--------------------------- MODULE AccountHealth ---------------------------
(***************************************************************************)
(* The Weibo accounts the crawlers log in with.  Their rows are in         *)
(* PostgreSQL; a sorted set of Redis, weibo:account:health, ranks them.    *)
(* Crawlers take the best account out of the set, look at its row and put  *)
(* it back (WeiboAccountService, AccountHealthService).  Beside them work  *)
(* WeiboAccountInitService, which adds the active accounts at a start, two *)
(* cron jobs of the broker, which raise the scores and validate the        *)
(* cookies, and the API, where users log in, delete accounts, and have     *)
(* them checked against Weibo.                                             *)
(*                                                                         *)
(* Every call of Redis and PostgreSQL is a step; a pipeline is one step.   *)
(* Weibo is external: asked about an account's cookies, or about a page    *)
(* loaded with them, it says anything.  All statuses but ACTIVE are one;   *)
(* ids are well formed and cookies are never blank, as logins write them.  *)
(***************************************************************************)
EXTENDS Integers, FiniteSets

CONSTANTS
  Accounts,      \* ids of weibo_accounts
  Crawlers,      \* crawlers, each with one call in progress
  Searchers,     \* those of them that run MainSearchWorkflow
  MaxScore,      \* 100, the first and the highest score
  Recovered,     \* 10, what a minute gives back
  Validated,     \* 20, what a validation gives or takes
  MaxAttempts,   \* maxAttempts, maxSelectionAttempts: 5
  MaxCalls,      \* bound: calls in progress, beside a validation
  MaxDeductions, \* bound: calls of deductHealth()
  MaxFaults      \* bound: crawlers that crash with an account in hand

ASSUME AccountHealthAssumption ==
  /\ Searchers \subseteq Crawlers
  /\ MaxScore \in Nat /\ Recovered \in Nat /\ Validated \in Nat
  /\ MaxAttempts \in Nat \ {0}
  /\ MaxCalls \in Nat /\ MaxDeductions \in Nat /\ MaxFaults \in Nat

None == "none"

VARIABLES
  status,      \* status[a]: that of the account's row, if there still is one
  score,       \* the sorted set: score[a] for every member a
  crawler,     \* crawler[c]: a call of one of the two services
  starter,     \* a call of onInit()
  recovery,    \* an execute() of AccountHealthRecoveryScheduler
  validation,  \* an execute() of CookieValidationScheduler
  check,       \* a call of checkAccount()
  deductions,  \* calls of deductHealth() so far
  faults,      \* crashes so far
  unsynced,    \* history: accounts nothing has added since they became active
               \* or a crash lost them
  retired      \* history: retired[c], the accounts that were not active when
               \* c's call began and have not been since

vars == <<status, score, crawler, starter, recovery, validation, check,
          deductions, faults, unsynced, retired>>

Statuses == {"active", "inactive", "deleted"}

Active(a) == status[a] = "active"
Exists(a) == status[a] # "deleted"
Queued(a) == a \in DOMAIN score

Least(x, y) == IF x <= y THEN x ELSE y
Most(x, y)  == IF x <= y THEN y ELSE x

\* A call that has decided to remove a from the set.
Removing(a) ==
  \E c \in Crawlers : crawler[c].at \in {"drop", "zrem"} /\ crawler[c].acc = a

\* ZADD of a function from some accounts to their scores, and what it means
\* for unsynced; and the removal of a member.
Zadd(new) ==
  /\ score' = [a \in DOMAIN score \cup DOMAIN new |->
                 IF a \in DOMAIN new THEN new[a] ELSE score[a]]
  /\ unsynced' = {a \in unsynced : a \in DOMAIN new => Removing(a)}
Zadd1(a, s) == Zadd([x \in {a} |-> s])
Remove(a) == score' = [x \in DOMAIN score \ {a} |-> score[x]]

\* save() of a row.
SaveStatus(a, st) ==
  /\ status' = [status EXCEPT ![a] = st]
  /\ unsynced' = IF st = "active" /\ ~Active(a) THEN unsynced \cup {a} ELSE unsynced
  /\ retired' = [c \in Crawlers |-> IF st = "active" THEN retired[c] \ {a} ELSE retired[c]]

Empty == [a \in {} |-> 0]
CrawlerAt(at, acc, s, n) == [at |-> at, acc |-> acc, score |-> s, attempt |-> n, todo |-> {}]
CrawlerIdle == CrawlerAt("idle", None, 0, 0)
DaemonAt(at, todo, new) == [at |-> at, todo |-> todo, new |-> new]
DaemonIdle == DaemonAt("idle", {}, Empty)
ValidationAt(at, todo, acc, by) == [at |-> at, todo |-> todo, acc |-> acc, by |-> by]
ValidationIdle == ValidationAt("idle", {}, None, 0)
CheckAt(at, acc, st) == [at |-> at, acc |-> acc, status |-> st]
CheckIdle == CheckAt("idle", None, "inactive")

\* Whether one more call may begin.
MayCall ==
  Cardinality({c \in Crawlers : crawler[c].at # "idle"})
    + Cardinality({d \in {<<1, starter.at>>, <<2, recovery.at>>, <<3, check.at>>} : d[2] # "idle"})
    < MaxCalls

Init ==
  /\ status \in [Accounts -> {"active", "inactive"}]
  /\ score = Empty
  /\ crawler = [c \in Crawlers |-> CrawlerIdle]
  /\ starter = DaemonIdle /\ recovery = DaemonIdle
  /\ validation = ValidationIdle /\ check = CheckIdle
  /\ deductions = 0 /\ faults = 0
  /\ unsynced = {a \in Accounts : Active(a)}
  /\ retired = [c \in Crawlers |-> {}]

-----------------------------------------------------------------------------
(* Crawlers: selectBestAccount() and getBestHealthAccount() *)

daemons == <<starter, recovery, validation, check>>

GotoC(c, r) == crawler' = [crawler EXCEPT ![c] = r]

\* The next attempt, or the end of the call without an account.
Again(c) ==
  IF crawler[c].attempt < MaxAttempts
  THEN CrawlerAt("pop", None, 0, crawler[c].attempt + 1)
  ELSE CrawlerIdle

Select(c) ==
  /\ crawler[c].at = "idle" /\ MayCall
  /\ GotoC(c, CrawlerAt("pop", None, 0, 1))
  /\ retired' = [retired EXCEPT ![c] = {a \in Accounts : ~Active(a)}]
  /\ UNCHANGED <<status, score, daemons, deductions, faults, unsynced>>

\* ZPOPMAX, when the set is not empty.
Pop(c) ==
  /\ crawler[c].at = "pop"
  /\ \E a \in Accounts :
       /\ Queued(a)
       /\ \A b \in Accounts : Queued(b) => score[b] <= score[a]
       /\ GotoC(c, CrawlerAt("look", a, score[a], crawler[c].attempt))
       /\ Remove(a)
  /\ UNCHANGED <<status, daemons, deductions, faults, unsynced, retired>>

\* ZPOPMAX of an empty set: WeiboAccountService gives up, which fails the
\* workflow for good; AccountHealthService fills the set and tries again.
NoAccount(c) ==
  /\ crawler[c].at = "pop" /\ \A a \in Accounts : ~Queued(a)
  /\ GotoC(c, IF c \in Searchers THEN [crawler[c] EXCEPT !.at = "fill"] ELSE CrawlerIdle)
  /\ UNCHANGED <<status, score, daemons, deductions, faults, unsynced, retired>>

\* initializeAccountHealth(): the active accounts, and a pipeline with which
\* all of them start again.
Fill(c) ==
  /\ \/ /\ crawler[c].at = "fill"
        /\ GotoC(c, [crawler[c] EXCEPT !.at = "exec", !.todo = {a \in Accounts : Active(a)}])
        /\ UNCHANGED <<score, unsynced>>
     \/ /\ crawler[c].at = "exec"
        /\ Zadd([a \in crawler[c].todo |-> MaxScore])
        /\ GotoC(c, Again(c))
  /\ UNCHANGED <<status, daemons, deductions, faults, retired>>

\* findOne(), and what the row says.
TakeAny(a) == Exists(a)     \* mutation: the status is not looked at
MayUse(a)  == Active(a)
Look(c) ==
  /\ crawler[c].at = "look"
  /\ GotoC(c, IF MayUse(crawler[c].acc) THEN [crawler[c] EXCEPT !.at = "keep"]
              ELSE IF c \in Searchers THEN Again(c)
              ELSE [crawler[c] EXCEPT !.at = "drop"])
  /\ UNCHANGED <<status, score, daemons, deductions, faults, unsynced, retired>>

Drop(c) ==
  /\ crawler[c].at = "drop"
  /\ Remove(crawler[c].acc)
  /\ GotoC(c, Again(c))
  /\ UNCHANGED <<status, daemons, deductions, faults, unsynced, retired>>

\* The account goes back, one point worse for WeiboAccountService, and the
\* call returns it.
Forget(c) == UNCHANGED <<score, unsynced>>    \* mutation: it is not put back
PutBack(c) ==
  Zadd1(crawler[c].acc, IF c \in Searchers THEN crawler[c].score
                                           ELSE Most(0, crawler[c].score - 1))
Keep(c) ==
  /\ crawler[c].at = "keep"
  /\ PutBack(c)
  /\ GotoC(c, CrawlerAt("use", crawler[c].acc, 0, 0))
  /\ retired' = [retired EXCEPT ![c] = {}]
  /\ UNCHANGED <<status, daemons, deductions, faults>>

-----------------------------------------------------------------------------
(* What MainSearchWorkflow does with the account *)

\* Another crawler, or a page that is neither finished nor expired.
Done(c) ==
  /\ crawler[c].at = "use"
  /\ GotoC(c, CrawlerIdle)
  /\ UNCHANGED <<status, score, daemons, deductions, faults, unsynced, retired>>

\* deductHealth(): ZINCRBY, which starts an account that is not in the set
\* from 0, and ZADD when the sum is negative.
Deduct(c) ==
  /\ c \in Searchers /\ crawler[c].at = "use"
  /\ deductions < MaxDeductions /\ deductions' = deductions + 1
  /\ LET a == crawler[c].acc
         s == (IF Queued(a) THEN score[a] ELSE 0) - 1
     IN /\ Zadd1(a, s)
        /\ GotoC(c, IF s < 0 THEN [crawler[c] EXCEPT !.at = "clamp"] ELSE CrawlerIdle)
  /\ UNCHANGED <<status, daemons, faults, retired>>

Clamp(c) ==
  /\ crawler[c].at = "clamp"
  /\ Zadd1(crawler[c].acc, 0)
  /\ GotoC(c, CrawlerIdle)
  /\ UNCHANGED <<status, daemons, deductions, faults, retired>>

\* markAccountAsExpired(), when the page says LOGIN_EXPIRED: findOne(), save()
\* of the row that was read, and ZREM, which is sent for a missing row too.
FindExpired(c) ==
  /\ c \in Searchers /\ crawler[c].at = "use"
  /\ GotoC(c, [crawler[c] EXCEPT !.at = IF Exists(crawler[c].acc) THEN "suspend" ELSE "zrem"])
  /\ UNCHANGED <<status, score, daemons, deductions, faults, unsynced, retired>>

MarkExpired(c) ==
  /\ crawler[c].at = "suspend"
  /\ SaveStatus(crawler[c].acc, "inactive")
  /\ GotoC(c, [crawler[c] EXCEPT !.at = "zrem"])
  /\ UNCHANGED <<score, daemons, deductions, faults>>

Zrem(c) ==
  /\ crawler[c].at = "zrem"
  /\ Remove(crawler[c].acc)
  /\ GotoC(c, CrawlerIdle)
  /\ UNCHANGED <<status, daemons, deductions, faults, unsynced, retired>>

\* A crawler stops anywhere; the account it has taken out is in no set.
InHand(c) == crawler[c].at \in {"look", "drop", "keep"}
Crash(c) ==
  /\ crawler[c].at \notin {"idle", "use"} /\ faults < MaxFaults
  /\ faults' = faults + 1
  /\ GotoC(c, CrawlerIdle)
  /\ unsynced' = IF InHand(c) /\ ~Queued(crawler[c].acc)
                 THEN unsynced \cup {crawler[c].acc} ELSE unsynced
  /\ UNCHANGED <<status, score, daemons, deductions, retired>>

-----------------------------------------------------------------------------
(* The daemons *)

\* onInit(), of the broker and of crawlers: the active accounts, then the
\* score of each, then a pipeline for those without.
Sync ==
  \/ /\ starter.at = "idle" /\ MayCall
     /\ \E a \in Accounts : Active(a)
     /\ starter' = DaemonAt("scores", {a \in Accounts : Active(a)}, Empty)
     /\ UNCHANGED <<score, unsynced>>
  \/ /\ starter.at = "scores"
     /\ starter' = DaemonAt("exec", {a \in starter.todo : ~Queued(a)}, Empty)
     /\ UNCHANGED <<score, unsynced>>
  \/ /\ starter.at = "exec"
     /\ Zadd([a \in starter.todo |-> MaxScore])
     /\ starter' = DaemonIdle
Starter ==
  /\ Sync
  /\ UNCHANGED <<status, crawler, recovery, validation, check, deductions,
                 faults, retired>>

\* Every minute: the members of the set, the score of each, 0 if it has gone,
\* and a pipeline for those that rise.
Recover ==
  \/ /\ recovery.at = "idle" /\ MayCall
     /\ \E a \in Accounts : Queued(a)
     /\ recovery' = DaemonAt("scores", {a \in Accounts : Queued(a)}, Empty)
     /\ UNCHANGED <<score, unsynced>>
  \/ /\ recovery.at = "scores"
     /\ LET now(a) == IF Queued(a) THEN score[a] ELSE 0
            up(a)  == Least(now(a) + Recovered, MaxScore)
        IN recovery' = DaemonAt("exec", {},
             [a \in {x \in recovery.todo : up(x) # now(x)} |-> up(a)])
     /\ UNCHANGED <<score, unsynced>>
  \/ /\ recovery.at = "exec"
     /\ Zadd(recovery.new)
     /\ recovery' = DaemonIdle
Recovery ==
  /\ Recover
  /\ UNCHANGED <<status, crawler, starter, validation, check, deductions,
                 faults, retired>>

\* updateHealthScore() ends with a ZADD whether or not the account was there.
AddPresent(a, s) ==     \* mutation: only accounts that are in the set
  IF Queued(a) THEN Zadd1(a, s) ELSE UNCHANGED <<score, unsynced>>
AddValidated(a, s) == Zadd1(a, s)

\* Every ten minutes: the active accounts; for each Weibo's answer, then the
\* score, then the new one.
Validation ==
  /\ \/ /\ validation.at = "idle"
        /\ \E a \in Accounts : Active(a)
        /\ validation' = ValidationAt("next", {a \in Accounts : Active(a)}, None, 0)
        /\ UNCHANGED <<score, unsynced>>
     \/ /\ validation.at = "next"
        /\ \E a \in validation.todo : \E delta \in {Validated, -Validated} :
             validation' = ValidationAt("zscore", validation.todo \ {a}, a, delta)
        /\ UNCHANGED <<score, unsynced>>
     \/ /\ validation.at = "zscore"
        /\ LET a    == validation.acc
               base == IF Queued(a) THEN score[a] ELSE MaxScore
           IN validation' = [validation EXCEPT !.at = "zadd",
                !.by = Most(0, Least(MaxScore, base + @))]
        /\ UNCHANGED <<score, unsynced>>
     \/ /\ validation.at = "zadd"
        /\ AddValidated(validation.acc, validation.by)
        /\ validation' = IF validation.todo = {} THEN ValidationIdle
                         ELSE ValidationAt("next", validation.todo, None, 0)
  /\ UNCHANGED <<status, crawler, starter, recovery, check, deductions, faults, retired>>

\* checkAllAccounts(), every few hours, and a user's checkAccount(): the row,
\* Weibo's answer, and save() of the row that was read, with the status it had
\* when the network failed.  save() of a row that has been deleted inserts it.
Check ==
  /\ \/ /\ check.at = "idle" /\ MayCall
        /\ \E a \in Accounts :
             /\ Exists(a)
             /\ check' = CheckAt("weibo", a, status[a])
        /\ UNCHANGED <<status, unsynced, retired>>
     \/ /\ check.at = "weibo"
        /\ \E st \in {"active", "inactive", check.status} :
             check' = CheckAt("save", check.acc, st)
        /\ UNCHANGED <<status, unsynced, retired>>
     \/ /\ check.at = "save"
        /\ SaveStatus(check.acc, check.status)
        /\ check' = CheckIdle
  /\ UNCHANGED <<score, crawler, starter, recovery, validation, deductions, faults>>

-----------------------------------------------------------------------------
(* Users *)

\* saveAccount(), at the end of a login.
Login(a) ==
  /\ Exists(a)
  /\ SaveStatus(a, "active")
  /\ UNCHANGED <<score, crawler, daemons, deductions, faults>>

\* deleteAccount(): the sorted set keeps the account.
Delete(a) ==
  /\ Exists(a)
  /\ SaveStatus(a, "deleted")
  /\ UNCHANGED <<score, crawler, daemons, deductions, faults>>

\* markAccountBanned().
Ban(a) ==
  /\ Exists(a)
  /\ SaveStatus(a, "inactive")
  /\ UNCHANGED <<score, crawler, daemons, deductions, faults>>

-----------------------------------------------------------------------------

Next ==
  \/ \E c \in Crawlers :
       \/ Select(c) \/ Pop(c) \/ NoAccount(c) \/ Fill(c) \/ Look(c) \/ Drop(c)
       \/ Keep(c) \/ Done(c) \/ Deduct(c) \/ Clamp(c) \/ FindExpired(c)
       \/ MarkExpired(c) \/ Zrem(c) \/ Crash(c)
  \/ Starter \/ Recovery \/ Validation \/ Check
  \/ \E a \in Accounts : Login(a) \/ Delete(a) \/ Ban(a)

Spec == Init /\ [][Next]_vars

\* Calls go on: Redis, PostgreSQL and Weibo answer, and cron starts the
\* validation every ten minutes.  Nobody has to crawl, check or log in.
Calls(c) == Pop(c) \/ NoAccount(c) \/ Fill(c) \/ Look(c) \/ Drop(c) \/ Keep(c)
            \/ Clamp(c) \/ MarkExpired(c) \/ Zrem(c)
Fairness ==
  /\ \A c \in Crawlers : WF_vars(Calls(c))
  /\ WF_vars(Validation)
FairSpec == Spec /\ Fairness

-----------------------------------------------------------------------------
(* Correctness *)

TypeOK ==
  /\ status \in [Accounts -> Statuses]
  /\ DOMAIN score \subseteq Accounts /\ \A a \in DOMAIN score : score[a] \in Int
  /\ \A c \in Crawlers : crawler[c].acc \in Accounts \cup {None}
  /\ unsynced \subseteq Accounts
  /\ retired \in [Crawlers -> SUBSET Accounts]

\* Crawlers that take accounts out, daemons that put them back and users who
\* log in lose no account: one that is active is in the set, in a crawler's
\* hand, being removed for what it was before, or has not been added since it
\* became active or was lost in a crash.
NoneLost ==
  \A a \in Accounts :
    Active(a) => \/ Queued(a) \/ a \in unsynced
                 \/ \E c \in Crawlers : crawler[c].acc = a /\ InHand(c)

\* A call never returns an account that had stopped being active before the
\* call began, whoever has put it back into the set since.
NoneRetired ==
  [][\A c \in Crawlers :
       crawler[c].at = "keep" /\ crawler'[c].at = "use"
         => crawler[c].acc \notin retired[c]]_vars

\* However an account got lost, the set gets it back.
AccountReturns ==
  \A a \in Accounts : <>[]Active(a) => []<>Queued(a)
=============================================================================
