------------------------------ MODULE LlmQuota ------------------------------
(***************************************************************************)
(* The language model behind parse_message (parsing/llm.py): receipts whose *)
(* text the rules cannot read are sent to OpenRouter, at most Limit times a *)
(* user and day; answers are kept in Redis under the text.  Jobs of the     *)
(* worker run side by side, and every Redis command and the request itself  *)
(* is a point where another job goes on or the worker dies.                 *)
(*                                                                         *)
(* Time goes in steps of the hour by which a counter outlives its day.      *)
(***************************************************************************)
EXTENDS Integers, FiniteSets

CONSTANTS
  Users, Texts, Jobs,
  Limit,      \* settings.llm_daily_limit_per_user
  DayLength,  \* steps of a day
  MaxTime,    \* bound: the clock
  MaxCount    \* bound: calls counted of a user and day

ASSUME QuotaAssumption ==
  /\ IsFiniteSet(Jobs)
  /\ Limit \in Nat /\ DayLength \in Nat \ {0} /\ MaxTime \in Nat /\ MaxCount \in Nat

VARIABLES
  now,
  cache,     \* texts whose answer Redis keeps
  counter,   \* llm:daily-calls keys: <<user, day>> to value and expiry
  job,       \* what each job is doing
  called,    \* requests sent, by user and day they were counted on
  wasted,    \* calls that were counted, then their job died
  refused    \* <<user, day>> with a call turned down

redis == <<cache, counter>>
ghosts == <<called, wasted, refused>>
vars == <<now, redis, job, ghosts>>

Today == now \div DayLength
Keys == Users \X (0..(MaxTime \div DayLength))
Never == MaxTime + 2 * DayLength
(* A mutation: a day without the margin.                                    *)
TtlOfADay == DayLength
(* 25 hours                                                                 *)
Ttl == DayLength + 1

Idle == [pc |-> "idle"]
Is(j, pc) == job[j].pc = pc
Goes(j, pc) == job' = [job EXCEPT ![j].pc = pc]
Ends(j) == job' = [job EXCEPT ![j] = Idle]
KeyOf(j) == <<job[j].user, job[j].day>>
-----------------------------------------------------------------------------
Init ==
  /\ now = 0 /\ cache = {} /\ counter = [k \in {} |-> 0]
  /\ job = [j \in Jobs |-> Idle]
  /\ called = [k \in Keys |-> 0] /\ wasted = [k \in Keys |-> 0]
  /\ refused = {}

(* parse_message of a text in which the rules find no amount.  The same     *)
(* text comes again with a retried job and with another user's message.     *)
ParseMessage(j) == \E u \in Users, t \in Texts :
  /\ Is(j, "idle")
  /\ job' = [job EXCEPT ![j] = [pc |-> "get", user |-> u, text |-> t]]
  /\ UNCHANGED <<now, redis, ghosts>>

(* GET of the cache; on a miss the key of the counter gets today's date.    *)
GetCached(j) ==
  /\ Is(j, "get")
  /\ IF job[j].text \in cache THEN Ends(j)
       ELSE job' = [job EXCEPT ![j] = [pc |-> "incr", user |-> job[j].user,
                      text |-> job[j].text, day |-> Today, at |-> now]]
  /\ UNCHANGED <<now, redis, ghosts>>

(* A mutation: the last call of the limit is turned down.                   *)
DecideBelow(j, calls) ==
  IF calls < Limit
    THEN Goes(j, "call") /\ UNCHANGED refused
    ELSE Ends(j) /\ refused' = refused \cup {KeyOf(j)}

(* Is the value INCR returned within the limit?                             *)
Decide(j, calls) ==
  IF calls <= Limit
    THEN Goes(j, "call") /\ UNCHANGED refused
    ELSE Ends(j) /\ refused' = refused \cup {KeyOf(j)}

(* INCR makes the key if there is none, without an expiry.                  *)
Incr(j) == LET k == KeyOf(j)
               n == IF k \in DOMAIN counter THEN counter[k].calls ELSE 0 IN
  /\ Is(j, "incr") /\ n < MaxCount
  /\ counter' = [x \in DOMAIN counter \cup {k} |->
       IF x # k THEN counter[x]
       ELSE IF n = 0 THEN [calls |-> 1, until |-> Never]
       ELSE [counter[k] EXCEPT !.calls = n + 1]]
  /\ IF n = 0 THEN Goes(j, "expire") /\ UNCHANGED refused ELSE Decide(j, n + 1)
  /\ UNCHANGED <<now, cache, called, wasted>>

(* A mutation: at midnight.                                                 *)
ExpireAtMidnight(j) == LET k == KeyOf(j) IN
  /\ Is(j, "expire")
  /\ counter' = [x \in DOMAIN counter |->
       IF x = k THEN [counter[k] EXCEPT !.until = (job[j].day + 1) * DayLength]
       ELSE counter[x]]
  /\ Decide(j, 1)
  /\ UNCHANGED <<now, cache, called, wasted>>

(* EXPIRE, after the first call of the day.                                 *)
Expire(j) == LET k == KeyOf(j) IN
  /\ Is(j, "expire")
  /\ counter' = [x \in DOMAIN counter |->
                   IF x = k THEN [counter[k] EXCEPT !.until = now + Ttl]
                   ELSE counter[x]]
  /\ Decide(j, 1)
  /\ UNCHANGED <<now, cache, called, wasted>>

(* The request is sent, within the job's time.                              *)
Call(j) ==
  /\ Is(j, "call")
  /\ called' = [called EXCEPT ![KeyOf(j)] = @ + 1]
  /\ Goes(j, "answer")
  /\ UNCHANGED <<now, redis, wasted, refused>>

(* No answer in 20 seconds, an error, or JSON that is not the schema's: the *)
(* message counts as unparsed.  A valid answer is kept.                     *)
CallFails(j) == /\ Is(j, "answer") /\ Ends(j)
                /\ UNCHANGED <<now, redis, ghosts>>
SetCached(j) == /\ Is(j, "answer") /\ Ends(j)
                /\ cache' = cache \cup {job[j].text}
                /\ UNCHANGED <<now, counter, ghosts>>

(* The worker dies; ARQ will run the job again, as a new one.  A counter    *)
(* whose job dies before EXPIRE stays for good; its key is of a past day    *)
(* then and nobody reads it.                                                *)
Dies(j) ==
  /\ ~Is(j, "idle") /\ Ends(j)
  /\ wasted' = IF job[j].pc \in {"expire", "call"}
                 THEN [wasted EXCEPT ![KeyOf(j)] = @ + 1] ELSE wasted
  /\ UNCHANGED <<now, redis, called, refused>>

(* Redis drops what has expired.  A job is over in five minutes             *)
(* (job_timeout), so at most one step falls between its reading the date    *)
(* and its INCR.                                                            *)
Tick ==
  /\ now < MaxTime
  /\ \A j \in Jobs : Is(j, "incr") => job[j].at = now
  /\ now' = now + 1
  /\ counter' = [k \in {x \in DOMAIN counter : counter[x].until > now + 1}
                   |-> counter[k]]
  /\ UNCHANGED <<cache, job, ghosts>>

(* Thirty days of an answer are over.                                       *)
CacheExpires(t) == /\ t \in cache /\ cache' = cache \ {t}
                   /\ UNCHANGED <<now, counter, job, ghosts>>

Next ==
  \/ Tick
  \/ \E t \in Texts : CacheExpires(t)
  \/ \E j \in Jobs : \/ ParseMessage(j) \/ GetCached(j) \/ Incr(j) \/ Expire(j)
                     \/ Call(j) \/ CallFails(j) \/ SetCached(j) \/ Dies(j)

Spec == Init /\ [][Next]_vars
-----------------------------------------------------------------------------
(* Every variable has its type, and Redis holds no key past its time.       *)
TypeOK ==
  /\ now \in 0..MaxTime /\ cache \subseteq Texts
  /\ DOMAIN counter \subseteq Keys
  /\ \A k \in DOMAIN counter :
       /\ counter[k].calls \in 1..MaxCount
       /\ counter[k].until \in (now + 1)..Never
  /\ \A j \in Jobs : job[j].pc \in {"idle", "get", "incr", "expire", "call", "answer"}
  /\ called \in [Keys -> Nat] /\ wasted \in [Keys -> Nat]
  /\ refused \subseteq Keys

(* At no time of the day, and across midnight, do jobs that run at once or  *)
(* are repeated send more requests for a user than the limit of the day:    *)
(* the counter outlives every job that was dated on its day.                *)
WithinLimit == \A k \in Keys : called[k] <= Limit

Counted(k) == {j \in Jobs : job[j].pc \in {"expire", "call"} /\ KeyOf(j) = k}

(* A text is turned down only when the user's calls of that day are used    *)
(* up: by requests sent, under way, or lost with their worker.  An answer   *)
(* from the cache uses up none.                                             *)
RefusedAtTheLimit ==
  \A k \in refused : called[k] + wasted[k] + Cardinality(Counted(k)) >= Limit
=============================================================================
