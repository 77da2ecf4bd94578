------------------------------- MODULE RuleSync -------------------------------
(***************************************************************************)
(* How a rule reaches the sniffer.  The admin backend stores the rules and *)
(* publishes each change; Elixir's RuleSubscriber receives the changes,    *)
(* RuleEngine keeps the rule table and re-sends all rules periodically, a  *)
(* ClientWorker per client enforces the rules its events match.  All three *)
(* send commands, one at a time, through CppBridge to the sniffer, which   *)
(* keeps the tables in memory and forgets them when it restarts.           *)
(*                                                                         *)
(* Elixir's processes interleave between any two calls.  A call to a       *)
(* process that is busy waits until that process is idle.                  *)
(***************************************************************************)
EXTENDS TableKeys, Sequences

CONSTANTS
    RuleValue,    \* the rules an administrator may create, see Rule
    MaxChanges,   \* bound: changes an administrator makes
    MaxCrashes    \* bound: crashes of the sniffer and of Elixir processes

Action == {"block", "block_after_minutes", "throttle"}

\* target is the client a rule of scope "ip" names, "none" for a global rule.
\* timed: the rule has a time window, which is open or not, as the clock says.
Rule == [id : STRING, scope : {"global", "ip"}, target : Ip \cup {"none"}, domain : Pattern,
         action : Action, timed : BOOLEAN]

ASSUME RuleAssumption ==
    /\ RuleValue \subseteq Rule
    /\ MaxChanges \in Nat
    /\ MaxCrashes \in Nat

VARIABLES
    stored,       \* the rules in Redis
    file,         \* the rules init would load from RULES_FILE: none if it is missing,
                  \* cut off, or no JSON for another reason
    saving,       \* what _save_rules has still to do: "open" and "write", "write", or "no"thing
    saved,        \* whether the last _save_rules to get to the file has written it
    publishing,   \* changes stored and not yet published, at most one
    tspu_rules,   \* the rule table of RuleEngine
    mailbox,      \* published changes RuleSubscriber has not looked at
    subscriber,   \* what RuleSubscriber is doing, see Busy
    engine,       \* what RuleEngine is doing
    resync,       \* the rules its resync has still to apply
    registry,     \* the clients with a ClientWorker
    spent,        \* <<client, name>>: time on the name is at the rules' limit
    worker,       \* the commands each ClientWorker has still to send
    cpp,          \* the sniffer's tables: Target -> how long
    up,           \* whether the sniffer accepts commands
    changes, crashes,
    lost,         \* history: a stored change was not published, or lost on its way
    misread       \* history: when RuleEngine last started, saved was FALSE

rulesVars == <<stored, file, saving, saved, publishing, tspu_rules, mailbox, subscriber, engine,
               resync, registry, spent, worker, cpp, up, changes, crashes, lost, misread>>

fileVars   == <<file, saving, saved>>
adminVars  == <<stored, fileVars, publishing, changes>>
elixirVars == <<tspu_rules, mailbox, subscriber, engine, resync, registry, spent, worker>>

-----------------------------------------------------------------------------
(* Commands and what the sniffer does with them.                           *)

TableOf(action) == IF action = "throttle" THEN "throttle" ELSE "block"

Target == [table : {"block", "throttle"}, key : Key]
TargetOf(action, o, p) == [table |-> TableOf(action), key |-> KeyOf(o, p)]

\* "forever": until_ts 0; "midnight": duration_seconds up to the next midnight
Command == [op : {"add"}, target : Target, until : {"forever", "midnight"}]
             \cup [op : {"remove"}, target : Target]

Add(r, o, p) ==
    [op |-> "add", target |-> TargetOf(r.action, o, p),
     until |-> IF r.action = "block_after_minutes" THEN "midnight" ELSE "forever"]
Remove(r, o) == [op |-> "remove", target |-> TargetOf(r.action, o, r.domain)]

\* The entries a removal takes along: of the same table and owner, and for
\* "*.x" every spelling that ends with ".x".
TakenAlong(t) ==
    {u \in Target :
        /\ u.table = t.table /\ u.key.owner = t.key.owner
        /\ IF t.key.dom.wild THEN EndsUnder(u.key.dom, t.key.dom.name)
                             ELSE u.key.dom = t.key.dom}

handle_command(c) ==
    IF c.op = "add"
    THEN Put(cpp, c.target, c.until)
    ELSE Drop(cpp, TakenAlong(c.target))

\* CppBridge connects, sends and closes; without a sniffer the command is
\* logged and dropped.
BridgeSend(c) == cpp' = IF up THEN handle_command(c) ELSE cpp

-----------------------------------------------------------------------------
(* RuleEngine's functions, run by whichever process calls them.            *)

ip_matches(r, ip) == r.scope = "global" \/ r.target = ip
domain_matches(r, d) == IF r.domain.wild THEN WildMatches(r.domain.name, d) ELSE r.domain.name = d

Clients(r) == {ip \in registry : ip_matches(r, ip)}

\* What a process has to do for one rule: commands to send, and clients whose
\* ClientWorker it has to ask for their time on the rule's domain.
Idle == [at |-> "idle", id |-> {}, rule |-> {}, sends |-> {}, asks |-> {}]
Busy(at, r, sends, asks) ==
    [at |-> at, id |-> {r.id}, rule |-> {r}, sends |-> sends, asks |-> asks]
Free(job) == job.sends = {} /\ job.asks = {}

\* A slip: a global rule goes to the clients known at the moment, and to nobody
\* where there is none.  No specification uses it, nor the other slips below.
ApplyToKnownClients(at, r) ==
    Busy(at, r,
         IF r.action = "block_after_minutes" THEN {}
                                             ELSE {Add(r, ip, r.domain) : ip \in Clients(r)},
         IF r.action = "block_after_minutes" THEN Clients(r) ELSE {})

ApplyRule(at, r) ==
    Busy(at, r,
         CASE r.action = "block_after_minutes" -> {}
           [] r.action # "block_after_minutes" /\ r.scope = "global" ->
                {Add(r, "global", r.domain)}
           [] OTHER -> {Add(r, ip, r.domain) : ip \in Clients(r)},
         IF r.action = "block_after_minutes" THEN Clients(r) ELSE {})

UnblockForRule(r) ==
    Busy("unblock", r,
         IF r.scope = "global" THEN {Remove(r, "global")}
                               ELSE {Remove(r, ip) : ip \in Clients(r)},
         {})

\* RuleEngine answers calls when no resync is under way.
EngineFree == engine = Idle /\ resync = {}

\* :sys.get_state is answered when the worker has handled its event; the
\* worker's table of names has no entry for a wildcard.
Answered(job, ip) ==
    LET r == CHOOSE r \in job.rule : TRUE
        over == ~r.domain.wild /\ <<ip, r.domain.name>> \in spent
    IN  [job EXCEPT !.asks = @ \ {ip},
                    !.sends = IF over THEN {Add(r, ip, r.domain)} ELSE {}]

-----------------------------------------------------------------------------
(* The admin backend, one request at a time.                               *)

Without(rules, id) == {r \in rules : r.id # id}

\* A request loads the rules, stores the changed ones in Redis and goes on to
\* the file; publishing is last.
Stores(rules, message) ==
    /\ changes < MaxChanges /\ publishing = {}
    /\ stored' = rules
    /\ saving' = "open"
    /\ publishing' = {message}
    /\ changes' = changes + 1
    /\ UNCHANGED <<file, saved, elixirVars, cpp, up, crashes, lost, misread>>

\* create_rule and update_rule
SaveRule(r) == Stores(Without(stored, r.id) \cup {r}, [action |-> "add", rule |-> r])

delete_rule(id) == Stores(Without(stored, id), [action |-> "remove", id |-> id])

SaveStep == UNCHANGED <<stored, publishing, changes, elixirVars, cpp, up, crashes, lost, misread>>

\* open(RULES_FILE, 'w') leaves nothing of what was there.
OpenFile ==
    /\ saving = "open" /\ saving' = "write"
    /\ file' = {} /\ saved' = FALSE
    /\ SaveStep

WriteFile ==
    /\ saving = "write" /\ saving' = "no"
    /\ file' = stored /\ saved' = TRUE
    /\ SaveStep

\* "Could not write rules file": the request goes on as if it had.
SaveFails ==
    /\ saving \in {"open", "write"} /\ saving' = "no"
    /\ saved' = FALSE
    /\ UNCHANGED file
    /\ SaveStep

\* A slip: the message goes out before the file is written.
PublishesFirst ==
    \E m \in publishing :
        /\ mailbox' = Append(mailbox, m)
        /\ publishing' = {}
        /\ UNCHANGED <<stored, fileVars, changes, tspu_rules, subscriber, engine, resync, registry,
                       spent, worker, cpp, up, crashes, lost, misread>>

Publish ==
    /\ saving = "no"
    /\ \E m \in publishing :
        /\ mailbox' = Append(mailbox, m)
        /\ publishing' = {}
        /\ UNCHANGED <<stored, fileVars, changes, tspu_rules, subscriber, engine, resync, registry,
                       spent, worker, cpp, up, crashes, lost, misread>>

-----------------------------------------------------------------------------
(* RuleSubscriber.                                                         *)

\* A slip: the table keeps the rule's earlier version beside the new one.
AddBesideOld ==
    /\ subscriber = Idle /\ mailbox # <<>> /\ Head(mailbox).action = "add"
    /\ EngineFree
    /\ LET r == Head(mailbox).rule
       IN  /\ tspu_rules' = tspu_rules \cup {r}
           /\ subscriber' = ApplyRule("apply", r)
    /\ mailbox' = Tail(mailbox)
    /\ UNCHANGED <<adminVars, engine, resync, registry, spent, worker, cpp, up, crashes, lost, misread>>

\* add_rule is a call to RuleEngine; the active clients get the rule at once.
SubscriberAdd ==
    /\ subscriber = Idle /\ mailbox # <<>> /\ Head(mailbox).action = "add"
    /\ EngineFree
    /\ LET r == Head(mailbox).rule
       IN  /\ tspu_rules' = Without(tspu_rules, r.id) \cup {r}
           /\ subscriber' = ApplyRule("apply", r)
    /\ mailbox' = Tail(mailbox)
    /\ UNCHANGED <<adminVars, engine, resync, registry, spent, worker, cpp, up, crashes, lost, misread>>

\* The rule is looked up in the table and its clients, if there is one, are
\* unblocked before it goes.
SubscriberRemove ==
    /\ subscriber = Idle /\ mailbox # <<>> /\ Head(mailbox).action = "remove"
    /\ LET id    == Head(mailbox).id
           found == {r \in tspu_rules : r.id = id}
       IN  subscriber' = IF found = {}
                         THEN [Idle EXCEPT !.at = "unblock", !.id = {id}]
                         ELSE UnblockForRule(CHOOSE r \in found : TRUE)
    /\ mailbox' = Tail(mailbox)
    /\ UNCHANGED <<adminVars, tspu_rules, engine, resync, registry, spent, worker, cpp, up,
                   crashes, lost, misread>>

SubscriberSend ==
    \E c \in subscriber.sends :
        /\ BridgeSend(c)
        /\ subscriber' = [subscriber EXCEPT !.sends = @ \ {c}]
        /\ UNCHANGED <<adminVars, tspu_rules, mailbox, engine, resync, registry, spent,
                       worker, up, crashes, lost, misread>>

SubscriberAsk ==
    \E ip \in subscriber.asks :
        /\ subscriber.sends = {} /\ worker[ip] = {}
        /\ subscriber' = Answered(subscriber, ip)
        /\ UNCHANGED <<adminVars, tspu_rules, mailbox, engine, resync, registry, spent,
                       worker, cpp, up, crashes, lost, misread>>

SubscriberApplied ==
    /\ subscriber.at = "apply" /\ Free(subscriber)
    /\ subscriber' = Idle
    /\ UNCHANGED <<adminVars, tspu_rules, mailbox, engine, resync, registry, spent, worker,
                   cpp, up, crashes, lost, misread>>

\* A slip: the clients are unblocked and the rule stays in the table.
UnblocksOnly ==
    /\ subscriber.at = "unblock" /\ Free(subscriber)
    /\ EngineFree
    /\ subscriber' = Idle
    /\ UNCHANGED <<adminVars, tspu_rules, mailbox, engine, resync, registry, spent, worker,
                   cpp, up, crashes, lost, misread>>

\* remove_rule is a call to RuleEngine.
SubscriberRemoved ==
    /\ subscriber.at = "unblock" /\ Free(subscriber)
    /\ EngineFree
    /\ tspu_rules' = {r \in tspu_rules : r.id \notin subscriber.id}
    /\ subscriber' = Idle
    /\ UNCHANGED <<adminVars, mailbox, engine, resync, registry, spent, worker, cpp, up,
                   crashes, lost, misread>>

-----------------------------------------------------------------------------
(* RuleEngine's periodic resync.                                           *)

\* list_rules: the rules as they are now are what this resync applies.
ResyncBegin ==
    /\ EngineFree /\ tspu_rules # {}
    /\ resync' = tspu_rules
    /\ UNCHANGED <<adminVars, tspu_rules, mailbox, subscriber, engine, registry, spent,
                   worker, cpp, up, crashes, lost, misread>>

ResyncRule ==
    /\ engine = Idle
    /\ \E r \in resync :
        /\ resync' = resync \ {r}
        /\ LET job == ApplyRule("apply", r)
           IN  engine' = IF Free(job) THEN Idle ELSE job
    /\ UNCHANGED <<adminVars, tspu_rules, mailbox, subscriber, registry, spent, worker, cpp,
                   up, crashes, lost, misread>>

EngineSend ==
    \E c \in engine.sends :
        /\ BridgeSend(c)
        /\ LET job == [engine EXCEPT !.sends = @ \ {c}]
           IN  engine' = IF Free(job) THEN Idle ELSE job
        /\ UNCHANGED <<adminVars, tspu_rules, mailbox, subscriber, resync, registry, spent,
                       worker, up, crashes, lost, misread>>

EngineAsk ==
    \E ip \in engine.asks :
        /\ engine.sends = {} /\ worker[ip] = {}
        /\ LET job == Answered(engine, ip)
           IN  engine' = IF Free(job) THEN Idle ELSE job
        /\ UNCHANGED <<adminVars, tspu_rules, mailbox, subscriber, resync, registry, spent,
                       worker, cpp, up, crashes, lost, misread>>

-----------------------------------------------------------------------------
(* ClientWorker.                                                           *)

\* An event of client ip on name d, perhaps one sent before the sniffer's
\* tables last changed: the worker is started if there is none, the time is
\* counted, and the rules in the table that match are to be enforced.
WorkerEvent(ip, d) ==
    /\ worker[ip] = {}
    /\ registry' = registry \cup {ip}
    /\ \E over \in BOOLEAN, closed \in SUBSET {r \in tspu_rules : r.timed} :
         LET matching == {r \in tspu_rules \ closed : ip_matches(r, ip) /\ domain_matches(r, d)}
         IN  /\ spent' = IF over THEN spent \cup {<<ip, d>>} ELSE spent
             /\ worker' = [worker EXCEPT ![ip] =
                    {Add(r, ip, Exact(d)) : r \in
                       {q \in matching : q.action = "block_after_minutes" => <<ip, d>> \in spent'}}]
    /\ UNCHANGED <<adminVars, tspu_rules, mailbox, subscriber, engine, resync, cpp, up,
                   crashes, lost, misread>>

WorkerSend(ip) ==
    \E c \in worker[ip] :
        /\ BridgeSend(c)
        /\ worker' = [worker EXCEPT ![ip] = @ \ {c}]
        /\ UNCHANGED <<adminVars, tspu_rules, mailbox, subscriber, engine, resync, registry,
                       spent, up, crashes, lost, misread>>
-----------------------------------------------------------------------------
(* Midnight, crashes and losses.                                           *)

Midnight ==
    /\ cpp' = Restrict(cpp, {t \in DOMAIN cpp : cpp[t] = "forever"})
    /\ UNCHANGED <<adminVars, elixirVars, up, crashes, lost, misread>>

SnifferCrash ==
    /\ up /\ crashes < MaxCrashes
    /\ up' = FALSE
    /\ cpp' = [t \in {} |-> "forever"]
    /\ crashes' = crashes + 1
    /\ UNCHANGED <<adminVars, elixirVars, lost, misread>>

SnifferStart ==
    /\ ~up
    /\ up' = TRUE
    /\ UNCHANGED <<adminVars, elixirVars, cpp, crashes, lost, misread>>

\* Redis pub/sub keeps nothing for a subscriber that is not connected; or the
\* backend dies first, in the middle of _save_rules or after it.
PublishLost ==
    /\ publishing # {} /\ crashes < MaxCrashes
    /\ publishing' = {}
    /\ saving' = "no" /\ saved' = (saved /\ saving = "no")
    /\ lost' = TRUE
    /\ crashes' = crashes + 1
    /\ UNCHANGED <<stored, file, changes, elixirVars, cpp, up, misread>>

\* RuleSubscriber waits for RuleEngine to answer add_rule or remove_rule.
AwaitsEngine ==
    \/ subscriber = Idle /\ mailbox # <<>> /\ Head(mailbox).action = "add"
    \/ subscriber.at = "unblock" /\ Free(subscriber)

\* One of its calls timed out: it is started anew with an empty mailbox.
SubscriberCrash ==
    /\ subscriber # Idle \/ (AwaitsEngine /\ ~EngineFree)
    /\ crashes < MaxCrashes
    /\ subscriber' = Idle
    /\ mailbox' = <<>>
    /\ lost' = (lost \/ mailbox # <<>> \/ subscriber.at = "unblock")
    /\ crashes' = crashes + 1
    /\ UNCHANGED <<adminVars, tspu_rules, engine, resync, registry, spent, worker, cpp, up, misread>>

\* A call of the resync timed out: RuleEngine's table goes with it, init loads
\* what it finds in the file, and a caller that waits for it goes too.
EngineCrash ==
    /\ ~EngineFree /\ crashes < MaxCrashes
    /\ tspu_rules' = file
    /\ misread' = ~saved
    /\ engine' = Idle /\ resync' = {}
    /\ IF AwaitsEngine
       THEN subscriber' = Idle /\ mailbox' = <<>>
       ELSE UNCHANGED <<subscriber, mailbox>>
    /\ crashes' = crashes + 1
    /\ UNCHANGED <<adminVars, registry, spent, worker, cpp, up, lost>>

\* A ClientWorker's call timed out; it is not restarted (restart: :temporary).
WorkerCrash(ip) ==
    /\ worker[ip] # {} /\ crashes < MaxCrashes
    /\ worker' = [worker EXCEPT ![ip] = {}]
    /\ registry' = registry \ {ip}
    /\ spent' = {s \in spent : s[1] # ip}
    /\ crashes' = crashes + 1
    /\ UNCHANGED <<adminVars, tspu_rules, mailbox, subscriber, engine, resync, cpp, up, lost, misread>>

-----------------------------------------------------------------------------

RulesInit ==
    /\ stored = {} /\ file = {} /\ saving = "no" /\ saved = TRUE
    /\ publishing = {} /\ changes = 0
    /\ tspu_rules = {} /\ mailbox = <<>>
    /\ subscriber = Idle /\ engine = Idle /\ resync = {}
    /\ registry = {} /\ spent = {} /\ worker = [ip \in Ip |-> {}]
    /\ cpp = [t \in {} |-> "forever"] /\ up = TRUE
    /\ crashes = 0 /\ lost = FALSE /\ misread = FALSE

Save == OpenFile \/ WriteFile \/ SaveFails

Admin == (\E r \in RuleValue : SaveRule(r) \/ delete_rule(r.id)) \/ Save \/ Publish

Subscriber == SubscriberAdd \/ SubscriberRemove \/ SubscriberSend \/ SubscriberAsk
                \/ SubscriberApplied \/ SubscriberRemoved

Engine == ResyncBegin \/ ResyncRule \/ EngineSend \/ EngineAsk

Failure == SnifferCrash \/ PublishLost \/ SubscriberCrash \/ EngineCrash
             \/ \E ip \in Ip : WorkerCrash(ip)

RulesNext ==
    \/ Admin
    \/ Subscriber
    \/ Engine
    \/ \E ip \in Ip : WorkerSend(ip) \/ \E d \in Name : WorkerEvent(ip, d)
    \/ Midnight
    \/ SnifferStart
    \/ Failure

RulesSpec == RulesInit /\ [][RulesNext]_rulesVars

\* Processes run, the resync timer fires, and Docker restarts the sniffer.  A
\* call waits in the callee's mailbox, which is first in first out, so it is
\* answered if the callee is idle again and again.
Fairness ==
    /\ WF_rulesVars(Save) /\ WF_rulesVars(Publish) /\ WF_rulesVars(SnifferStart)
    /\ WF_rulesVars(SubscriberRemove) /\ WF_rulesVars(SubscriberSend) /\ WF_rulesVars(SubscriberApplied)
    /\ SF_rulesVars(SubscriberAdd) /\ SF_rulesVars(SubscriberRemoved) /\ SF_rulesVars(SubscriberAsk)
    /\ WF_rulesVars(ResyncBegin) /\ WF_rulesVars(ResyncRule) /\ WF_rulesVars(EngineSend)
    /\ SF_rulesVars(EngineAsk)
    /\ \A ip \in Ip : WF_rulesVars(WorkerSend(ip))

RulesFairSpec == RulesSpec /\ Fairness

-----------------------------------------------------------------------------
(* Properties.                                                             *)

Message == [action : {"add"}, rule : RuleValue]
             \cup [action : {"remove"}, id : {r.id : r \in RuleValue}]

Unique(rules) == rules \subseteq RuleValue /\ \A r, q \in rules : r.id = q.id => r = q

\* Rules are unique by id wherever they are kept, and every process is idle or
\* doing what one rule asks of it.
RulesTypeOK ==
    /\ Unique(stored) /\ Unique(file) /\ Unique(tspu_rules) /\ Unique(resync)
    /\ saving \in {"no", "open", "write"} /\ saved \in BOOLEAN
    /\ saving # "no" => publishing # {}
    /\ publishing \subseteq Message /\ \A m, n \in publishing : m = n
    /\ mailbox \in Seq(Message)
    /\ \A job \in {subscriber, engine} :
          /\ job.rule \subseteq RuleValue
          /\ job.id \subseteq {r.id : r \in RuleValue}
          /\ job.sends \subseteq Command
          /\ job.asks \subseteq Ip
          /\ job.at = "idle" <=> job = Idle
    /\ registry \subseteq Ip /\ spent \subseteq registry \X Name
    /\ \A ip \in Ip : worker[ip] \subseteq Command
    /\ DOMAIN cpp \subseteq Target /\ \A t \in DOMAIN cpp : cpp[t] \in {"forever", "midnight"}
    /\ up \in BOOLEAN /\ lost \in BOOLEAN /\ misread \in BOOLEAN
    /\ changes \in 0..MaxChanges /\ crashes \in 0..MaxCrashes

\* Once RuleSubscriber has nothing left to look at or to remove, Elixir's table
\* is what the administrator stored, even if RuleEngine crashed in between and
\* loaded a file that was behind the store or ahead of the messages still to
\* come.  It takes a published change to be lost, or RuleEngine to start on a
\* file that _save_rules has just emptied or could not write, to part them.
CaughtUp ==
    ~lost /\ ~misread /\ publishing = {} /\ mailbox = <<>> /\ subscriber.at # "unblock"
        => tspu_rules = stored

\* Hot reload: some time after the last change Elixir's table is what the
\* administrator stored and stays so, even if RuleEngine crashed and loaded the
\* file between two changes; with the two exceptions of CaughtUp.
Converges == <>[](lost \/ misread \/ tspu_rules = stored)

Reach(r) == IF r.scope = "global" THEN "global" ELSE r.target

\* Self-healing: while a block or throttle rule is in the table, its entry is
\* in the sniffer again and again, however often the sniffer loses it: at once
\* for a global rule, for a client's rule if the client stays registered.
SelfHeals ==
    \A r \in {q \in RuleValue : q.action # "block_after_minutes"} :
        LET t == TargetOf(r.action, Reach(r), r.domain)
            wanted == r \in tspu_rules /\ (r.scope = "global" \/ r.target \in registry)
        IN  wanted ~> (~wanted \/ (t \in DOMAIN cpp /\ cpp[t] = "forever"))

\* A rule in the table that asks for this very entry.
Justified(t) ==
    \E r \in tspu_rules :
        /\ TableOf(r.action) = t.table
        /\ IF t.key.owner = "global" THEN r.scope = "global" ELSE ip_matches(r, t.key.owner)
        /\ r.domain = t.key.dom \/ (~t.key.dom.wild /\ domain_matches(r, t.key.dom.name))

AtRest ==
    /\ publishing = {} /\ mailbox = <<>> /\ subscriber = Idle /\ EngineFree
    /\ \A ip \in Ip : worker[ip] = {}
    /\ crashes = 0

\* "Idempotent - safe to call repeatedly": with nothing under way, the resyncs
\* have left no permanent entry in the sniffer that no rule asks for.
ResyncLeavesNoOrphan ==
    AtRest => \A t \in DOMAIN cpp : cpp[t] = "forever" => Justified(t)
=============================================================================
