-------------------------- MODULE BlockTableProofs --------------------------
(***************************************************************************)
(* BlockTable is type correct and implements BlockPolicy, for every set of *)
(* clients and names, every subdomain relation and every bound.  The rules *)
(* that fill the tables (RuleSync) are type correct, and Elixir catches up *)
(* with what the administrator stored.                                     *)
(***************************************************************************)
EXTENDS BlockTable, RuleSync, TLAPS

-----------------------------------------------------------------------------
(* What the table operators do to the live part of a table.                *)

\* A table of entries keeps its kind when an entry is put.
LEMMA PutIsTable ==
    ASSUME NEW Entry, NEW t, IsTable(t, Entry), NEW k \in Key, NEW e \in Entry
    PROVE  IsTable(Put(t, k, e), Entry)
  BY DEF IsTable, Put

\* The same when keys are dropped.
LEMMA DropIsTable ==
    ASSUME NEW Entry, NEW t, IsTable(t, Entry), NEW K
    PROVE  IsTable(Drop(t, K), Entry)
  BY DEF IsTable, Drop, Restrict

\* The same of what is in force.
LEMMA LivePartIsTable ==
    ASSUME NEW Entry, NEW t, IsTable(t, Entry), NEW ts
    PROVE  IsTable(LivePart(t, ts), Entry)
  BY DEF IsTable, LivePart, Restrict

\* The empty table is a table of any kind.
LEMMA NoTableIsTable ==
    ASSUME NEW Entry
    PROVE  IsTable(NoTable, Entry)
  BY DEF IsTable, NoTable

\* A sweep at second ts leaves what is in force at ts as it is.
LEMMA LivePartTwice ==
    ASSUME NEW t, NEW ts
    PROVE  LivePart(LivePart(t, ts), ts) = LivePart(t, ts)
  BY DEF LivePart, Restrict

\* Time passing loses entries only: sweeping early changes nothing later.
LEMMA LivePartLater ==
    ASSUME NEW Entry, NEW t, \A k \in DOMAIN t : t[k].until_ts \in Nat,
           NEW ts \in Nat
    PROVE  LivePart(LivePart(t, ts), ts + 1) = LivePart(t, ts + 1)
  BY DEF LivePart, Restrict, Live

\* Dropping keys and hiding lapsed entries commute.
LEMMA LivePartDrop ==
    ASSUME NEW t, NEW K, NEW ts
    PROVE  LivePart(Drop(t, K), ts) = Drop(LivePart(t, ts), K)
  BY DEF LivePart, Drop, Restrict

\* Erasing lapsed entries is invisible.
LEMMA LivePartDropLapsed ==
    ASSUME NEW t, NEW K, NEW ts, \A k \in K : k \in DOMAIN t => ~Live(t[k], ts)
    PROVE  LivePart(Drop(t, K), ts) = LivePart(t, ts)
  BY DEF LivePart, Drop, Restrict

\* Putting an entry is a grant on its key and touches no other key.
LEMMA LivePartPut ==
    ASSUME NEW t, NEW k, NEW e, NEW ts
    PROVE  Policy!Granted(LivePart(t, ts), LivePart(Put(t, k, e), ts), k)
  BY DEF LivePart, Put, Restrict, Policy!Granted, Policy!Drop, Policy!Restrict

-----------------------------------------------------------------------------
(* Type correctness.                                                       *)

\* Every state of the tables, under any interleaving of commands, readers and
\* sweeps, is well formed.
THEOREM TypeCorrect == Spec => []TypeOK
<1>1. Init => TypeOK
  BY NoTableIsTable, TableAssumption DEF Init, TypeOK
<1>2. TypeOK /\ [Next]_vars => TypeOK'
  <2> SUFFICES ASSUME TypeOK, [Next]_vars
               PROVE  TypeOK'
    OBVIOUS
  <2> USE TableAssumption
  <2>1. ASSUME NEW ip \in Owner, NEW p \in Pattern, NEW until \in 0..MaxTs, NEW dur \in 0..MaxDur,
               CmdBlock(ip, p, until, dur)
        PROVE  TypeOK'
    <3>1. KeyOf(ip, p) \in Key
      BY DEF KeyOf, Key
    <3>2. [until_ts |-> UntilOf(until, dur)] \in BlockEntry
      BY DEF TypeOK, UntilOf, BlockEntry, Until
    <3> QED
      BY <2>1, <3>1, <3>2, PutIsTable DEF TypeOK, CmdBlock, add_block
  <2>2. ASSUME NEW ip \in Owner, NEW p \in Pattern, CmdUnblock(ip, p)
        PROVE  TypeOK'
    BY <2>2, DropIsTable DEF TypeOK, CmdUnblock, remove_block
  <2>3. ASSUME NEW ip \in Owner, NEW p \in Pattern, NEW m \in Delay, NEW dur \in 0..MaxDur,
               CmdThrottle(ip, p, m, dur)
        PROVE  TypeOK'
    <3>1. KeyOf(ip, p) \in Key
      BY DEF KeyOf, Key
    <3>2. [delay_ms |-> m, until_ts |-> UntilOf(0, dur)] \in ThrottleEntry
      BY DEF TypeOK, UntilOf, ThrottleEntry, Until
    <3> QED
      BY <2>3, <3>1, <3>2, PutIsTable DEF TypeOK, CmdThrottle, add_throttle
  <2>4. ASSUME NEW ip \in Owner, NEW p \in Pattern, CmdUnthrottle(ip, p)
        PROVE  TypeOK'
    BY <2>4, DropIsTable DEF TypeOK, CmdUnthrottle, remove_throttle
  <2>5. ASSUME NEW ip \in Ip, NEW d \in Name, is_blocked(ip, d)
        PROVE  TypeOK'
    <3>1. IsTable(g_block_table, BlockEntry)'
      BY <2>5, DropIsTable DEF TypeOK, is_blocked
    <3>2. answer' \in [blocked : BOOLEAN, delay_ms : Delay \cup {0}]
      BY <2>5, Zenon DEF TypeOK, is_blocked, Hit, WildcardHit
    <3> QED
      BY <2>5, <3>1, <3>2 DEF TypeOK, is_blocked
  <2>6. ASSUME NEW ip \in Ip, NEW d \in Name, get_throttle_ms(ip, d)
        PROVE  TypeOK'
    <3>1. IsTable(g_throttle_table, ThrottleEntry)'
      BY <2>6, DropIsTable DEF TypeOK, get_throttle_ms
    <3>2. answer' \in [blocked : BOOLEAN, delay_ms : Delay \cup {0}]
      BY <2>6 DEF TypeOK, get_throttle_ms, IsTable, ThrottleEntry
    <3> QED
      BY <2>6, <3>1, <3>2 DEF TypeOK, get_throttle_ms
  <2>7. ASSUME CleanupBlocks
        PROVE  TypeOK'
    BY <2>7, LivePartIsTable DEF TypeOK, CleanupBlocks
  <2>8. ASSUME CleanupThrottles
        PROVE  TypeOK'
    BY <2>8, LivePartIsTable DEF TypeOK, CleanupThrottles
  <2>9. CASE Tick
    BY <2>9 DEF TypeOK, Tick
  <2>10. CASE Restart
    BY <2>10, NoTableIsTable DEF TypeOK, Restart
  <2>11. CASE UNCHANGED vars
    BY <2>11 DEF TypeOK, vars
  <2> QED
    BY <2>1, <2>2, <2>3, <2>4, <2>5, <2>6, <2>7, <2>8, <2>9, <2>10, <2>11
       DEF Next, Commands, Readers
<1> QED
  BY <1>1, <1>2, PTL DEF Spec

-----------------------------------------------------------------------------
(* BlockTable implements BlockPolicy.                                      *)

\* The keys a removal erases from the live part are the keys it revokes.
LEMMA EraseIsRevoke ==
    ASSUME NEW t, DOMAIN t \subseteq Key, NEW ip \in Owner, NEW p \in Pattern, NEW ts
    PROVE  LivePart(Drop(t, ToErase(t, ip, p)), ts)
             = Policy!Drop(LivePart(t, ts), Policy!Revoked(ip, p))
<1>1. DOMAIN t \ ToErase(t, ip, p) = DOMAIN t \ Policy!Revoked(ip, p)
  BY DEF ToErase, Policy!Revoked, KeyOf, Key, Policy!Key, Owner, Policy!Owner,
         Pattern, Policy!Pattern, EndsUnder, Policy!EndsUnder
<1>2. Drop(t, ToErase(t, ip, p)) = Drop(t, Policy!Revoked(ip, p))
  BY <1>1 DEF Drop
<1>3. LivePart(Drop(t, Policy!Revoked(ip, p)), ts)
        = Drop(LivePart(t, ts), Policy!Revoked(ip, p))
  BY LivePartDrop
<1>4. \A u, K : Policy!Drop(u, K) = Drop(u, K)
  BY DEF Drop, Restrict, Policy!Drop, Policy!Restrict
<1> QED
  BY <1>2, <1>3, <1>4

\* is_blocked's order of lookups decides exactly what the entries in force decide.
LEMMA DecisionIsCoverage ==
    ASSUME TypeOK, NEW ip \in Ip, NEW d \in Name
    PROVE  (Hit(KeyOf(ip, Exact(d))) \/ Hit(KeyOf("global", Exact(d))) \/ WildcardHit(ip, d))
             <=> \E k \in DOMAIN LivePart(g_block_table, now_ts) : Policy!Covers(k, ip, d)
<1> DEFINE t == g_block_table
           L == DOMAIN LivePart(t, now_ts)
<1>1. L = {k \in DOMAIN t : Live(t[k], now_ts)}
  BY DEF LivePart, Restrict
<1>2. \A k \in L : k \in Key
  BY <1>1 DEF TypeOK, IsTable
<1>3. ASSUME NEW o \in Owner
      PROVE  Hit(KeyOf(o, Exact(d))) <=> \E k \in L : k.owner = o /\ ~k.dom.wild /\ k.dom.name = d
  <2> DEFINE own == KeyOf(o, Exact(d))
  <2>1. own.owner = o /\ own.dom.wild = FALSE /\ own.dom.name = d
    BY DEF KeyOf, Exact
  <2>2. \A k \in L : k.owner = o /\ ~k.dom.wild /\ k.dom.name = d => k = own
    BY <1>2 DEF KeyOf, Exact, Key, Pattern
  <2>3. Hit(own) <=> own \in L
    BY <1>1 DEF Hit
  <2> QED
    BY <2>1, <2>2, <2>3
<1>4. WildcardHit(ip, d)
        <=> \E k \in L : k.owner \in {ip, "global"} /\ k.dom.wild /\ WildMatches(k.dom.name, d)
  BY <1>1 DEF WildcardHit
<1>5. \A k \in L : Policy!Covers(k, ip, d)
        <=> /\ k.owner \in {ip, "global"}
            /\ \/ k.dom.wild /\ WildMatches(k.dom.name, d)
               \/ ~k.dom.wild /\ k.dom.name = d
  BY <1>2 DEF Policy!Covers, WildMatches, Policy!WildMatches, Key, Pattern
<1>6. ip \in Owner /\ "global" \in Owner
  BY DEF Owner
<1> QED
  BY <1>3, <1>4, <1>5, <1>6

\* The initial tables are the policy's, and every step of a thread is a step
\* of the policy taken by the same actor.
THEOREM ImplementsPolicy == Spec => PolicySpec
<1> USE TableAssumption
<1>1. Init => Policy!Init
  BY DEF Init, Policy!Init, NoTable, Policy!NoTable, LivePart, Restrict
<1>2. TypeOK /\ [Next]_vars => [Policy!Next]_(Policy!vars)
  <2> SUFFICES ASSUME TypeOK, [Next]_vars
               PROVE  Policy!Next \/ UNCHANGED Policy!vars
    OBVIOUS
  <2> DEFINE blocks == LivePart(g_block_table, now_ts)
             throttles == LivePart(g_throttle_table, now_ts)
  <2>1. ASSUME NEW ip \in Owner, NEW p \in Pattern, NEW until, NEW dur,
               CmdBlock(ip, p, until, dur)
        PROVE  \E k \in Policy!Key : Policy!GrantBlock(k)
    <3>1. Policy!Granted(blocks, blocks', KeyOf(ip, p))
      BY <2>1, LivePartPut DEF CmdBlock, add_block
    <3>2. KeyOf(ip, p) \in Policy!Key
      BY DEF KeyOf, Policy!Key, Owner, Policy!Owner, Pattern, Policy!Pattern
    <3> QED
      BY <2>1, <3>1, <3>2 DEF CmdBlock, Policy!GrantBlock
  <2>2. ASSUME NEW ip \in Owner, NEW p \in Pattern, CmdUnblock(ip, p)
        PROVE  Policy!RevokeBlocks(ip, p)
    <3>1. blocks' = Policy!Drop(blocks, Policy!Revoked(ip, p))
      BY <2>2, EraseIsRevoke DEF CmdUnblock, remove_block, TypeOK, IsTable
    <3>2. Policy!Revoked(ip, p) \cup {} = Policy!Revoked(ip, p)
      OBVIOUS
    <3>3. \E apex \in {{}, Policy!Apex(ip, p)} :
             blocks' = Policy!Drop(blocks, Policy!Revoked(ip, p) \cup apex)
      BY <3>1, <3>2
    <3> QED
      BY <2>2, <3>3 DEF CmdUnblock, Policy!RevokeBlocks
  <2>3. ASSUME NEW ip \in Owner, NEW p \in Pattern, NEW m, NEW dur, CmdThrottle(ip, p, m, dur)
        PROVE  \E k \in Policy!Key : Policy!GrantThrottle(k)
    <3>1. Policy!Granted(throttles, throttles', KeyOf(ip, p))
      BY <2>3, LivePartPut DEF CmdThrottle, add_throttle
    <3>2. KeyOf(ip, p) \in Policy!Key
      BY DEF KeyOf, Policy!Key, Owner, Policy!Owner, Pattern, Policy!Pattern
    <3> QED
      BY <2>3, <3>1, <3>2 DEF CmdThrottle, Policy!GrantThrottle
  <2>4. ASSUME NEW ip \in Owner, NEW p \in Pattern, CmdUnthrottle(ip, p)
        PROVE  Policy!RevokeThrottles(ip, p)
    BY <2>4, EraseIsRevoke
       DEF CmdUnthrottle, remove_throttle, Policy!RevokeThrottles, TypeOK, IsTable
  <2>5. ASSUME NEW ip \in Ip, NEW d \in Name, is_blocked(ip, d)
        PROVE  Policy!Ask(ip, d)
    <3>1. blocks' = blocks
      BY <2>5, LivePartDropLapsed DEF is_blocked, Lapsed
    <3>2. answer' = [answer EXCEPT !.blocked = \E k \in DOMAIN blocks : Policy!Covers(k, ip, d)]
      <4>1. (Hit(KeyOf(ip, Exact(d))) \/ Hit(KeyOf("global", Exact(d))) \/ WildcardHit(ip, d))
              = \E k \in DOMAIN blocks : Policy!Covers(k, ip, d)
        BY DecisionIsCoverage, Zenon DEF Hit, WildcardHit
      <4> QED
        BY <2>5, <4>1, Zenon DEF is_blocked
    <3> QED
      BY <2>5, <3>1, <3>2 DEF is_blocked, Policy!Ask
  <2>6. ASSUME NEW ip \in Ip, NEW d \in Name, get_throttle_ms(ip, d)
        PROVE  Policy!AskDelay(ip, d)
    <3> DEFINE k == KeyOf(ip, Exact(d))
               t == g_throttle_table
               live == k \in DOMAIN t /\ Live(t[k], now_ts)
    <3>1. throttles' = throttles
      <4>1. CASE live
        BY <2>6, <4>1 DEF get_throttle_ms
      <4>2. CASE ~live
        <5>1. g_throttle_table' = Drop(t, {k}) /\ now_ts' = now_ts
          BY <2>6, <4>2 DEF get_throttle_ms
        <5> QED
          BY <4>2, <5>1, LivePartDropLapsed
      <4> QED
        BY <4>1, <4>2
    <3>2. k = Policy!KeyOf(ip, Policy!Exact(d))
      BY DEF KeyOf, Policy!KeyOf, Exact, Policy!Exact
    <3>3. live <=> k \in DOMAIN throttles
      BY DEF LivePart, Restrict
    <3>4. live => throttles[k] = t[k]
      BY DEF LivePart, Restrict
    <3> QED
      BY <2>6, <3>1, <3>2, <3>3, <3>4 DEF get_throttle_ms, Policy!AskDelay
  <2>7. CASE CleanupBlocks
    BY <2>7, LivePartTwice DEF CleanupBlocks, Policy!Tidy, Policy!Next
  <2>8. CASE CleanupThrottles
    BY <2>8, LivePartTwice DEF CleanupThrottles, Policy!Tidy, Policy!Next
  <2>9. CASE Tick
    <3>1. \A k \in DOMAIN g_block_table : g_block_table[k].until_ts \in Nat
      BY DEF TypeOK, IsTable, BlockEntry, Until
    <3>2. \A k \in DOMAIN g_throttle_table : g_throttle_table[k].until_ts \in Nat
      BY DEF TypeOK, IsTable, ThrottleEntry, Until
    <3>3. now_ts \in Nat /\ now_ts' = now_ts + 1
      BY <2>9 DEF TypeOK, Tick
    <3>4. blocks' = LivePart(blocks, now_ts') /\ throttles' = LivePart(throttles, now_ts')
      BY <2>9, <3>1, <3>2, <3>3, LivePartLater DEF Tick
    <3>5. \A u, n : Policy!LivePart(u, n) = LivePart(u, n)
      BY DEF Policy!LivePart, LivePart, Policy!Restrict, Restrict, Policy!Live, Live
    <3> QED
      BY <2>9, <3>3, <3>4, <3>5 DEF Tick, Policy!Pass, Policy!Next
  <2>10. CASE Restart
    BY <2>10 DEF Restart, Policy!Forget, Policy!Next, NoTable, Policy!NoTable, LivePart, Restrict
  <2>11. CASE UNCHANGED vars
    BY <2>11 DEF vars, Policy!vars
  <2>12. \A ip \in Owner, p \in Pattern : ip \in Policy!Owner /\ p \in Policy!Pattern
    BY DEF Owner, Policy!Owner, Pattern, Policy!Pattern
  <2> QED
    BY <2>1, <2>2, <2>3, <2>4, <2>5, <2>6, <2>7, <2>8, <2>9, <2>10, <2>11, <2>12
       DEF Next, Commands, Readers, Policy!Next
<1> QED
  BY <1>1, <1>2, TypeCorrect, PTL DEF Spec, PolicySpec, Policy!Spec

-----------------------------------------------------------------------------
(* Rules on their way to the sniffer.                                      *)

\* What rules are known by.
Ids == {r.id : r \in RuleValue}

\* What a process may be doing.  TypeOK alone is not inductive: a job with
\* clients to ask has a rule, which Answered takes from it.
Job == [at : {"idle", "apply", "unblock"}, id : SUBSET Ids, rule : SUBSET RuleValue,
        sends : SUBSET Command, asks : SUBSET Ip]
IsJob(job) ==
    /\ job \in Job
    /\ job.at = "idle" => job = Idle
    /\ job.asks # {} => \E r \in RuleValue : job.rule = {r}

\* TypeOK with what makes it inductive.
RulesInv ==
    /\ Unique(stored) /\ Unique(file) /\ Unique(tspu_rules) /\ Unique(resync)
    /\ saving \in {"no", "open", "write"} /\ saved \in BOOLEAN
    /\ saving # "no" => publishing # {}
    /\ publishing \subseteq Message /\ \A m, n \in publishing : m = n
    /\ mailbox \in Seq(Message)
    /\ IsJob(subscriber) /\ IsJob(engine)
    /\ registry \subseteq Ip /\ spent \subseteq registry \X Name
    /\ worker \in [Ip -> SUBSET Command]
    /\ DOMAIN cpp \subseteq Target /\ cpp \in [DOMAIN cpp -> {"forever", "midnight"}]
    /\ up \in BOOLEAN /\ lost \in BOOLEAN /\ misread \in BOOLEAN
    /\ changes \in 0..MaxChanges /\ crashes \in 0..MaxCrashes

\* The commands for a rule are commands.
LEMMA CommandTyped ==
    ASSUME NEW r \in RuleValue, NEW o \in Owner
    PROVE  /\ Remove(r, o) \in Command
           /\ \A p \in Pattern : Add(r, o, p) \in Command
<1>1. r.action \in Action /\ r.domain \in Pattern
  BY RuleAssumption DEF Rule
<1>2. \A p \in Pattern : TargetOf(r.action, o, p) \in Target
  BY <1>1 DEF TargetOf, Target, TableOf, Key, KeyOf
<1>3. Remove(r, o) \in [op : {"remove"}, target : Target]
  BY <1>1, <1>2 DEF Remove
<1>4. \A p \in Pattern :
         Add(r, o, p)
            \in [op : {"add"}, target : Target, until : {"forever", "midnight"}]
  BY <1>2 DEF Add
<1> QED
  BY <1>3, <1>4 DEF Command

\* A process with nothing to do.
LEMMA IdleTyped == IsJob(Idle)
  BY DEF IsJob, Job, Idle

\* What is left to do after the process has taken up a rule.
LEMMA ApplyTyped ==
    ASSUME NEW r \in RuleValue, registry \subseteq Ip
    PROVE  IsJob(ApplyRule("apply", r)) /\ ApplyRule("apply", r).at = "apply"
<1>1. Clients(r) \subseteq Ip /\ Ip \subseteq Owner /\ "global" \in Owner
  BY DEF Clients, Owner
<1>2. r.domain \in Pattern /\ r.id \in Ids
  BY RuleAssumption DEF Rule, Ids
<1>3. \A o \in Owner : Add(r, o, r.domain) \in Command
  BY <1>2, CommandTyped
<1> DEFINE sends == CASE r.action = "block_after_minutes" -> {}
                      [] r.action # "block_after_minutes" /\ r.scope = "global" ->
                           {Add(r, "global", r.domain)}
                      [] OTHER -> {Add(r, ip, r.domain) : ip \in Clients(r)}
           asks == IF r.action = "block_after_minutes" THEN Clients(r) ELSE {}
<1>4. sends \subseteq Command
  BY <1>1, <1>3
<1>5. asks \subseteq Ip
  BY <1>1
<1>6. ApplyRule("apply", r) = Busy("apply", r, sends, asks)
  BY DEF ApplyRule
<1> HIDE DEF sends, asks
<1> QED
  BY <1>2, <1>4, <1>5, <1>6 DEF IsJob, Job, Busy

\* The same when a rule is to go.
LEMMA UnblockTyped ==
    ASSUME NEW r \in RuleValue, registry \subseteq Ip
    PROVE  /\ IsJob(UnblockForRule(r))
           /\ UnblockForRule(r).at = "unblock" /\ UnblockForRule(r).id = {r.id}
<1>1. Clients(r) \subseteq Ip /\ Ip \subseteq Owner /\ "global" \in Owner
  BY DEF Clients, Owner
<1>2. r.id \in Ids
  BY DEF Ids
<1> DEFINE sends == IF r.scope = "global" THEN {Remove(r, "global")}
                                          ELSE {Remove(r, ip) : ip \in Clients(r)}
<1>3. sends \subseteq Command
  BY <1>1, CommandTyped
<1>4. UnblockForRule(r) = Busy("unblock", r, sends, {})
  BY DEF UnblockForRule
<1> HIDE DEF sends
<1> QED
  BY <1>2, <1>3, <1>4 DEF IsJob, Job, Busy

\* A command less to send.
LEMMA SentTyped ==
    ASSUME NEW job, IsJob(job), NEW c \in job.sends
    PROVE  LET rest == [job EXCEPT !.sends = @ \ {c}]
           IN  IsJob(rest) /\ rest.at = job.at /\ rest.id = job.id /\ c \in Command
<1>1. job.at # "idle"
  BY DEF IsJob, Idle
<1> QED
  BY <1>1 DEF IsJob, Job

\* A client less to ask.
LEMMA AnsweredTyped ==
    ASSUME NEW job, IsJob(job), NEW ip \in job.asks
    PROVE  /\ IsJob(Answered(job, ip))
           /\ Answered(job, ip).at = job.at /\ Answered(job, ip).id = job.id
<1>1. job.at # "idle" /\ job \in Job
  BY DEF IsJob, Idle
<1>2. PICK r \in RuleValue : job.rule = {r}
  BY DEF IsJob
<1>3. (CHOOSE q \in job.rule : TRUE) = r
  BY <1>2
<1>4. ip \in Owner
  BY <1>1 DEF Job, Owner
<1>5. r.domain \in Pattern
  BY RuleAssumption DEF Rule
<1>6. Add(r, ip, r.domain) \in Command
  BY <1>4, <1>5, CommandTyped
<1>7. PICK s \in SUBSET Command :
        Answered(job, ip) = [[job EXCEPT !.asks = @ \ {ip}] EXCEPT !.sends = s]
  <2> DEFINE over == ~r.domain.wild /\ <<ip, r.domain.name>> \in spent
             s == IF over THEN {Add(r, ip, r.domain)} ELSE {}
  <2>1. s \in SUBSET Command
    BY <1>6
  <2>2. Answered(job, ip) = [job EXCEPT !.asks = @ \ {ip}, !.sends = s]
    BY <1>3 DEF Answered
  <2> HIDE DEF s
  <2> QED
    BY <1>1, <2>1, <2>2 DEF Job
<1>8. PICK rest : rest = [job EXCEPT !.asks = @ \ {ip}]
  OBVIOUS
<1>9. rest \in Job /\ rest.at = job.at /\ rest.id = job.id /\ rest.rule = {r}
  BY <1>1, <1>2, <1>8 DEF Job
<1> QED
  BY <1>1, <1>7, <1>8, <1>9 DEF IsJob, Job

\* The sniffer's tables after a command.
LEMMA SnifferTyped ==
    ASSUME RulesInv, NEW c \in Command, BridgeSend(c)
    PROVE  DOMAIN cpp' \subseteq Target /\ cpp' \in [DOMAIN cpp' -> {"forever", "midnight"}]
<1>1. DOMAIN cpp \subseteq Target /\ cpp \in [DOMAIN cpp -> {"forever", "midnight"}]
  BY DEF RulesInv
<1>2. CASE cpp' = cpp
  BY <1>1, <1>2
<1>3. CASE c.op = "add" /\ cpp' = Put(cpp, c.target, c.until)
  <2>1. c.target \in Target /\ c.until \in {"forever", "midnight"}
    BY <1>3 DEF Command
  <2> QED
    BY <1>1, <1>3, <2>1 DEF Put
<1>4. CASE cpp' = Drop(cpp, TakenAlong(c.target))
  BY <1>1, <1>4 DEF Drop, Restrict
<1> QED
  BY <1>2, <1>3, <1>4 DEF BridgeSend, handle_command

\* An item from the front of the mailbox.
LEMMA HeadTyped ==
    ASSUME NEW box \in Seq(Message), box # <<>>
    PROVE  Head(box) \in Message /\ Tail(box) \in Seq(Message)
  OBVIOUS

\* A message carries a rule or the id of one.
LEMMA MessageTyped ==
    ASSUME NEW m \in Message
    PROVE  /\ m.action = "add" => m.rule \in RuleValue
           /\ m.action = "remove" => m.id \in Ids
           /\ m.action \in {"add", "remove"}
  BY DEF Message, Ids

\* A request of the administrator.
LEMMA AdminTyped ==
    ASSUME RulesInv, Admin
    PROVE  RulesInv'
<1> USE DEF RulesInv
<1>1. \A n \in 0..MaxChanges : n < MaxChanges => n + 1 \in 0..MaxChanges
  BY RuleAssumption
<1>2. ASSUME NEW rules, Unique(rules), NEW m \in Message, Stores(rules, m)
      PROVE  RulesInv'
  <2>1. publishing' \subseteq Message /\ \A k, n \in publishing' : k = n
    BY <1>2 DEF Stores
  <2>2. changes' \in 0..MaxChanges /\ publishing' # {}
    BY <1>1, <1>2 DEF Stores
  <2> QED
    BY <1>2, <2>1, <2>2 DEF Stores, elixirVars, Unique
<1>3. ASSUME NEW r \in RuleValue, SaveRule(r)
      PROVE  RulesInv'
  <2>1. Unique(Without(stored, r.id) \cup {r})
    BY DEF Unique, Without
  <2>2. [action |-> "add", rule |-> r] \in Message
    BY DEF Message
  <2> QED
    BY <1>2, <1>3, <2>1, <2>2 DEF SaveRule
<1>4. ASSUME NEW r \in RuleValue, delete_rule(r.id)
      PROVE  RulesInv'
  <2>1. Unique(Without(stored, r.id))
    BY DEF Unique, Without
  <2>2. [action |-> "remove", id |-> r.id] \in Message
    BY DEF Message
  <2> QED
    BY <1>2, <1>4, <2>1, <2>2 DEF delete_rule
<1>5. CASE Save
  <2>1. UNCHANGED <<stored, publishing, changes, elixirVars, cpp, up, crashes, lost, misread>>
    BY <1>5 DEF Save, OpenFile, WriteFile, SaveFails, SaveStep
  <2>2. Unique(file') /\ saved' \in BOOLEAN /\ saving \in {"open", "write"}
        /\ saving' \in {"no", "write"}
    BY <1>5 DEF Save, OpenFile, WriteFile, SaveFails, Unique
  <2> QED
    BY <2>1, <2>2 DEF elixirVars, Unique
<1>6. CASE Publish
  <2>1. mailbox' \in Seq(Message)
    BY <1>6 DEF Publish
  <2> QED
    BY <1>6, <2>1 DEF Publish, fileVars, Unique
<1> QED
  BY <1>3, <1>4, <1>5, <1>6 DEF Admin

\* A step of RuleSubscriber.
LEMMA SubscriberTyped ==
    ASSUME RulesInv, Subscriber
    PROVE  RulesInv'
<1> USE DEF RulesInv
<1>1. CASE SubscriberAdd
  <2>1. PICK r \in RuleValue : r = Head(mailbox).rule
    BY <1>1, HeadTyped, MessageTyped DEF SubscriberAdd
  <2>2. /\ tspu_rules' = Without(tspu_rules, r.id) \cup {r}
        /\ subscriber' = ApplyRule("apply", r)
    BY <1>1, <2>1 DEF SubscriberAdd
  <2>3. Unique(tspu_rules')
    BY <2>2 DEF Unique, Without
  <2>4. IsJob(subscriber')
    BY <2>2, ApplyTyped
  <2>5. mailbox' \in Seq(Message)
    BY <1>1, HeadTyped DEF SubscriberAdd
  <2> QED
    BY <1>1, <2>3, <2>4, <2>5 DEF SubscriberAdd, adminVars, fileVars
<1>2. CASE SubscriberRemove
  <2>1. PICK i \in Ids : i = Head(mailbox).id
    BY <1>2, HeadTyped, MessageTyped DEF SubscriberRemove
  <2>2. IsJob(subscriber')
    <3> DEFINE found == {r \in tspu_rules : r.id = i}
    <3>1. CASE found = {}
      <4>1. subscriber' = [Idle EXCEPT !.at = "unblock", !.id = {i}]
        BY <1>2, <2>1, <3>1 DEF SubscriberRemove
      <4>2. subscriber' = [at |-> "unblock", id |-> {i}, rule |-> {}, sends |-> {}, asks |-> {}]
        BY <4>1 DEF Idle
      <4> QED
        BY <4>2 DEF IsJob, Job
    <3>2. CASE found # {}
      <4>1. PICK r \in found : r = CHOOSE q \in found : TRUE
        BY <3>2
      <4>2. subscriber' = UnblockForRule(r) /\ r \in RuleValue
        BY <1>2, <2>1, <3>2, <4>1 DEF SubscriberRemove, Unique
      <4> QED
        BY <4>2, UnblockTyped
    <3> QED
      BY <3>1, <3>2
  <2>3. mailbox' \in Seq(Message)
    BY <1>2, HeadTyped DEF SubscriberRemove
  <2> QED
    BY <1>2, <2>2, <2>3 DEF SubscriberRemove, adminVars, fileVars
<1>3. CASE SubscriberSend
  <2>1. PICK c \in subscriber.sends :
           BridgeSend(c) /\ subscriber' = [subscriber EXCEPT !.sends = @ \ {c}]
    BY <1>3 DEF SubscriberSend
  <2>2. IsJob(subscriber') /\ c \in Command
    BY <2>1, SentTyped
  <2>3. DOMAIN cpp' \subseteq Target /\ cpp' \in [DOMAIN cpp' -> {"forever", "midnight"}]
    BY <2>1, <2>2, SnifferTyped
  <2> QED
    BY <1>3, <2>2, <2>3 DEF SubscriberSend, adminVars, fileVars
<1>4. CASE SubscriberAsk
  <2>1. PICK ip \in subscriber.asks : subscriber' = Answered(subscriber, ip)
    BY <1>4 DEF SubscriberAsk
  <2>2. IsJob(subscriber')
    BY <2>1, AnsweredTyped
  <2> QED
    BY <1>4, <2>2 DEF SubscriberAsk, adminVars, fileVars
<1>5. CASE SubscriberApplied
  BY <1>5, IdleTyped DEF SubscriberApplied, adminVars, fileVars
<1>6. CASE SubscriberRemoved
  <2>1. Unique(tspu_rules')
    BY <1>6 DEF SubscriberRemoved, Unique
  <2> QED
    BY <1>6, <2>1, IdleTyped DEF SubscriberRemoved, adminVars, fileVars
<1> QED
  BY <1>1, <1>2, <1>3, <1>4, <1>5, <1>6 DEF Subscriber

\* A step of RuleEngine's resync.
LEMMA EngineTyped ==
    ASSUME RulesInv, Engine
    PROVE  RulesInv'
<1> USE DEF RulesInv
<1>1. CASE ResyncBegin
  BY <1>1 DEF ResyncBegin, adminVars, fileVars
<1>2. CASE ResyncRule
  <2>1. PICK r \in resync : /\ resync' = resync \ {r}
                            /\ engine' = Idle \/ engine' = ApplyRule("apply", r)
    BY <1>2 DEF ResyncRule
  <2>2. Unique(resync') /\ r \in RuleValue
    BY <2>1 DEF Unique
  <2>3. IsJob(engine')
    BY <2>1, <2>2, ApplyTyped, IdleTyped
  <2> QED
    BY <1>2, <2>2, <2>3 DEF ResyncRule, adminVars, fileVars
<1>3. CASE EngineSend
  <2>1. PICK c \in engine.sends :
           /\ BridgeSend(c)
           /\ engine' = Idle \/ engine' = [engine EXCEPT !.sends = @ \ {c}]
    BY <1>3 DEF EngineSend
  <2>2. IsJob(engine') /\ c \in Command
    <3>1. IsJob(engine)
      OBVIOUS
    <3> QED
      BY ONLY <2>1, <3>1, SentTyped, IdleTyped, c \in engine.sends
  <2>3. DOMAIN cpp' \subseteq Target /\ cpp' \in [DOMAIN cpp' -> {"forever", "midnight"}]
    BY <2>1, <2>2, SnifferTyped
  <2> QED
    BY <1>3, <2>2, <2>3 DEF EngineSend, adminVars, fileVars
<1>4. CASE EngineAsk
  <2>1. PICK ip \in engine.asks : engine' = Idle \/ engine' = Answered(engine, ip)
    BY <1>4 DEF EngineAsk
  <2>2. IsJob(engine')
    BY <2>1, AnsweredTyped, IdleTyped
  <2> QED
    BY <1>4, <2>2 DEF EngineAsk, adminVars, fileVars
<1> QED
  BY <1>1, <1>2, <1>3, <1>4 DEF Engine

\* A step of a ClientWorker.
LEMMA WorkerTyped ==
    ASSUME RulesInv, NEW ip \in Ip,
           WorkerSend(ip) \/ (\E d \in Name : WorkerEvent(ip, d)) \/ WorkerCrash(ip)
    PROVE  RulesInv'
<1> USE DEF RulesInv
<1>1. CASE WorkerSend(ip)
  <2>1. PICK c \in worker[ip] : BridgeSend(c) /\ worker' = [worker EXCEPT ![ip] = @ \ {c}]
    BY <1>1 DEF WorkerSend
  <2>2. worker' \in [Ip -> SUBSET Command] /\ c \in Command
    BY <2>1
  <2>3. DOMAIN cpp' \subseteq Target /\ cpp' \in [DOMAIN cpp' -> {"forever", "midnight"}]
    BY <2>1, <2>2, SnifferTyped
  <2> QED
    BY <1>1, <2>2, <2>3 DEF WorkerSend, adminVars, fileVars
<1>2. ASSUME NEW d \in Name, WorkerEvent(ip, d)
      PROVE  RulesInv'
  <2>1. registry' = registry \cup {ip} /\ (spent' = spent \cup {<<ip, d>>} \/ spent' = spent)
    BY <1>2 DEF WorkerEvent
  <2>2. registry' \subseteq Ip /\ spent' \subseteq registry' \X Name
    BY <2>1
  <2>3. PICK rules \in SUBSET tspu_rules :
           worker' = [worker EXCEPT ![ip] = {Add(r, ip, Exact(d)) : r \in rules}]
    BY <1>2 DEF WorkerEvent
  <2>4. {Add(r, ip, Exact(d)) : r \in rules} \subseteq Command
    <3>1. Exact(d) \in Pattern /\ ip \in Owner
      BY DEF Exact, Pattern, Owner
    <3>2. rules \subseteq RuleValue
      BY DEF Unique
    <3> QED
      BY <3>1, <3>2, CommandTyped
  <2>5. worker' \in [Ip -> SUBSET Command]
    BY <2>3, <2>4
  <2> QED
    BY <1>2, <2>2, <2>5 DEF WorkerEvent, adminVars, fileVars
<1>3. CASE WorkerCrash(ip)
  <2>1. worker' \in [Ip -> SUBSET Command]
    BY <1>3 DEF WorkerCrash
  <2>2. registry' \subseteq Ip /\ spent' \subseteq registry' \X Name
    BY <1>3 DEF WorkerCrash
  <2>3. crashes' \in 0..MaxCrashes
    BY RuleAssumption, <1>3 DEF WorkerCrash
  <2> QED
    BY <1>3, <2>1, <2>2, <2>3 DEF WorkerCrash, adminVars, fileVars
<1> QED
  BY <1>1, <1>2, <1>3

\* Midnight, a start or a crash.
LEMMA FaultTyped ==
    ASSUME RulesInv,
           \/ Midnight \/ SnifferStart \/ SnifferCrash
           \/ PublishLost \/ SubscriberCrash \/ EngineCrash
    PROVE  RulesInv'
<1> USE DEF RulesInv
<1>1. crashes < MaxCrashes => crashes + 1 \in 0..MaxCrashes
  BY RuleAssumption
<1>2. CASE Midnight
  <2>1. DOMAIN cpp' \subseteq Target /\ cpp' \in [DOMAIN cpp' -> {"forever", "midnight"}]
    BY <1>2 DEF Midnight, Restrict
  <2> QED
    BY <1>2, <2>1 DEF Midnight, adminVars, fileVars, elixirVars
<1>3. CASE SnifferStart
  BY <1>3 DEF SnifferStart, adminVars, fileVars, elixirVars
<1>4. CASE SnifferCrash
  BY <1>1, <1>4 DEF SnifferCrash, adminVars, fileVars, elixirVars
<1>5. CASE PublishLost
  BY <1>1, <1>5 DEF PublishLost, elixirVars, Unique
<1>6. CASE SubscriberCrash
  <2>1. mailbox' \in Seq(Message) /\ lost' \in BOOLEAN /\ IsJob(subscriber')
    BY <1>6, IdleTyped DEF SubscriberCrash
  <2> QED
    BY <1>1, <1>6, <2>1 DEF SubscriberCrash, adminVars, fileVars
<1>7. CASE EngineCrash
  <2>1. IsJob(engine') /\ IsJob(subscriber') /\ mailbox' \in Seq(Message)
    <3>1. \/ subscriber' = Idle /\ mailbox' = <<>>
          \/ subscriber' = subscriber /\ mailbox' = mailbox
      BY <1>7 DEF EngineCrash
    <3>2. engine' = Idle
      BY <1>7 DEF EngineCrash
    <3>3. <<>> \in Seq(Message)
      OBVIOUS
    <3> QED
      BY <3>1, <3>2, <3>3, IdleTyped
  <2>2. Unique(tspu_rules') /\ Unique(resync')
    BY <1>7 DEF EngineCrash, adminVars, fileVars, Unique
  <2> QED
    BY <1>1, <1>7, <2>1, <2>2 DEF EngineCrash, adminVars, fileVars
<1> QED
  BY <1>2, <1>3, <1>4, <1>5, <1>6, <1>7

\* Nothing is stored, and every process is idle.
LEMMA InitTyped ==
    ASSUME RulesInit
    PROVE  RulesInv
<1> USE DEF RulesInit
<1>1. Unique(stored) /\ Unique(file) /\ Unique(tspu_rules) /\ Unique(resync)
  BY DEF Unique
<1>2. mailbox \in Seq(Message) /\ worker \in [Ip -> SUBSET Command]
  OBVIOUS
<1>3. DOMAIN cpp \subseteq Target /\ cpp \in [DOMAIN cpp -> {"forever", "midnight"}]
  OBVIOUS
<1>4. changes \in 0..MaxChanges /\ crashes \in 0..MaxCrashes
  BY RuleAssumption
<1> QED
  BY <1>1, <1>2, <1>3, <1>4, IdleTyped DEF RulesInv

\* Every step keeps the types.
LEMMA NextTyped ==
    ASSUME RulesInv, [RulesNext]_rulesVars
    PROVE  RulesInv'
<1>1. CASE UNCHANGED rulesVars
  BY <1>1 DEF RulesInv, rulesVars
<1> QED
  BY <1>1, AdminTyped, SubscriberTyped, EngineTyped, WorkerTyped, FaultTyped
     DEF RulesNext, Failure

\* What is checked of the states.
LEMMA RulesInvImplies ==
    ASSUME RulesInv
    PROVE  RulesTypeOK
<1> USE DEF RulesInv
<1>1. ASSUME NEW job \in {subscriber, engine}
      PROVE  /\ job.rule \subseteq RuleValue
             /\ job.id \subseteq {r.id : r \in RuleValue}
             /\ job.sends \subseteq Command
             /\ job.asks \subseteq Ip
             /\ job.at = "idle" <=> job = Idle
  BY <1>1 DEF IsJob, Job, Ids, Idle
<1> QED
  BY <1>1 DEF RulesTypeOK

\* The inductive invariant holds in every state.
LEMMA RulesInvHolds == RulesSpec => []RulesInv
  BY InitTyped, NextTyped, PTL DEF RulesSpec

\* Rules are unique by id in the store, the table and the resync, and every
\* process is idle or does what one rule asks, whatever the administrator
\* changes, whoever crashes and whenever.
THEOREM RulesTypeCorrect == RulesSpec => []RulesTypeOK
  BY RulesInvHolds, RulesInvImplies, PTL

-----------------------------------------------------------------------------
(* CaughtUp is not inductive: it says nothing while changes are pending.   *)
(* InStep says that the last thing pending about a rule agrees with what   *)
(* is stored, that the table does where nothing is pending, and so does    *)
(* the file, but for the change whose saving has not got to the file.      *)

IdOf(m)   == IF m.action = "add" THEN m.rule.id ELSE m.id
Agrees(m) == IF m.action = "add" THEN m.rule \in stored ELSE \A r \in stored : r.id # m.id

\* A change of rule i is published or about to be.
Announced(i) ==
    \/ \E m \in publishing : IdOf(m) = i
    \/ \E k \in 1..Len(mailbox) : IdOf(mailbox[k]) = i

\* RuleSubscriber is about to remove rule i.
Going(i) == subscriber.at = "unblock" /\ i \in subscriber.id

PublishingAgrees == \A m \in publishing : Agrees(m)

MailboxAgrees ==
    \A k \in 1..Len(mailbox) :
        /\ \A j \in 1..Len(mailbox) : j > k => IdOf(mailbox[j]) # IdOf(mailbox[k])
        /\ \A m \in publishing : IdOf(m) # IdOf(mailbox[k])
        => Agrees(mailbox[k])

Same(rules, i) == \A r \in RuleValue : r.id = i => (r \in stored <=> r \in rules)

GoingAgrees == \A i \in Ids : ~Announced(i) /\ Going(i) => \A r \in stored : r.id # i

TableAgrees == \A i \in Ids : ~Announced(i) /\ ~Going(i) => Same(tspu_rules, i)

\* A rule whose change is stored and not yet in the file.
Ahead(i) == saving = "open" /\ \E m \in publishing : IdOf(m) = i

FileAgrees == saved => saving # "write" /\ \A i \in Ids : Ahead(i) \/ Same(file, i)

PendingAgrees == PublishingAgrees /\ MailboxAgrees /\ GoingAgrees

InStep ==
    /\ FileAgrees
    /\ ~lost => PendingAgrees
    /\ ~lost /\ ~misread => TableAgrees

\* Whether a message agrees with the store depends on the rules of its id.
LEMMA AgreesStays ==
    ASSUME RulesInv, RulesInv', NEW m \in Message, Agrees(m),
           \A r \in RuleValue : r.id = IdOf(m) => (r \in stored' <=> r \in stored)
    PROVE  Agrees(m)'
<1>1. stored \subseteq RuleValue /\ stored' \subseteq RuleValue
  BY DEF RulesInv, Unique
<1>2. CASE m.action = "add"
  BY <1>1, <1>2, MessageTyped DEF Agrees, IdOf
<1>3. CASE m.action # "add"
  BY <1>1, <1>3 DEF Agrees, IdOf
<1> QED
  BY <1>2, <1>3

\* The administrator changes a rule: it is stored, its change is still to be
\* published, and the file is behind.
LEMMA ChangeInStep ==
    ASSUME RulesInv, RulesInv', InStep, NEW m \in Message, NEW rules, Stores(rules, m), Agrees(m)',
           \A r \in RuleValue : r.id # IdOf(m) => (r \in rules <=> r \in stored)
    PROVE  InStep'
<1>1. /\ publishing = {} /\ publishing' = {m} /\ stored' = rules
      /\ saving = "no" /\ saving' = "open"
      /\ UNCHANGED <<mailbox, subscriber, tspu_rules, lost, misread, file, saved>>
  BY DEF Stores, elixirVars, RulesInv
<1>2. stored' \subseteq RuleValue
  BY DEF RulesInv, Unique
<1>3. FileAgrees'
  <2> SUFFICES ASSUME saved, NEW i \in Ids, i # IdOf(m)
               PROVE  Same(file, i)'
    BY <1>1 DEF FileAgrees, Ahead
  <2>1. Same(file, i)
    BY <1>1 DEF InStep, FileAgrees, Ahead
  <2> QED
    BY <1>1, <2>1 DEF Same
<1>4. ASSUME ~lost'
      PROVE  PendingAgrees'
  <2>1. MailboxAgrees /\ GoingAgrees
    BY <1>1, <1>4 DEF InStep, PendingAgrees
  <2>2. PublishingAgrees'
    BY <1>1 DEF PublishingAgrees
  <2>3. MailboxAgrees'
    <3> SUFFICES ASSUME NEW k \in 1..Len(mailbox),
                        \A j \in 1..Len(mailbox) : j > k => IdOf(mailbox[j]) # IdOf(mailbox[k]),
                        IdOf(m) # IdOf(mailbox[k])
                 PROVE  Agrees(mailbox[k])'
      BY <1>1 DEF MailboxAgrees
    <3>1. PICK n \in Message : n = mailbox[k]
      BY DEF RulesInv
    <3>2. Agrees(n)
      BY <1>1, <2>1, <3>1 DEF MailboxAgrees
    <3>3. \A r \in RuleValue : r.id = IdOf(n) => (r \in stored' <=> r \in stored)
      BY <1>1, <3>1
    <3>4. Agrees(n)'
      BY <3>2, <3>3, AgreesStays
    <3> QED
      BY <1>1, <3>1, <3>4
  <2>4. GoingAgrees'
    <3> SUFFICES ASSUME NEW i \in Ids, ~Announced(i)', Going(i)'
                 PROVE  \A r \in stored' : r.id # i
      BY DEF GoingAgrees
    <3>1. i # IdOf(m) /\ ~Announced(i) /\ Going(i)
      BY <1>1 DEF Announced, Going
    <3> QED
      BY <1>1, <1>2, <2>1, <3>1 DEF GoingAgrees
  <2> QED
    BY <2>2, <2>3, <2>4 DEF PendingAgrees
<1>5. ASSUME ~lost' /\ ~misread'
      PROVE  TableAgrees'
  <2> SUFFICES ASSUME NEW i \in Ids, ~Announced(i)', ~Going(i)'
               PROVE  Same(tspu_rules, i)'
    BY DEF TableAgrees
  <2>1. i # IdOf(m) /\ ~Announced(i) /\ ~Going(i)
    BY <1>1 DEF Announced, Going
  <2>2. Same(tspu_rules, i)
    BY <1>1, <1>5, <2>1 DEF InStep, TableAgrees
  <2> QED
    BY <1>1, <2>1, <2>2 DEF Same
<1> QED
  BY <1>3, <1>4, <1>5 DEF InStep

\* _save_rules goes on with the file, or gives it up.
LEMMA SaveInStep ==
    ASSUME RulesInv, RulesInv', InStep, Save
    PROVE  InStep'
<1>1. UNCHANGED <<stored, publishing, mailbox, subscriber, tspu_rules, lost, misread>>
  BY DEF Save, OpenFile, WriteFile, SaveFails, SaveStep, elixirVars
<1>2. FileAgrees'
  BY DEF Save, OpenFile, WriteFile, SaveFails, SaveStep, FileAgrees, Same
<1> QED
  BY <1>1, <1>2
     DEF InStep, PendingAgrees, PublishingAgrees, MailboxAgrees, GoingAgrees, TableAgrees,
         Agrees, Announced, Going, Same

\* A change is published.
LEMMA PublishInStep ==
    ASSUME RulesInv, RulesInv', InStep, Publish
    PROVE  InStep'
<1>1. PICK m \in publishing : mailbox' = Append(mailbox, m) /\ publishing' = {}
  BY DEF Publish
<1>2. /\ saving = "no"
      /\ UNCHANGED <<stored, file, saving, saved, tspu_rules, subscriber, lost, misread>>
  BY DEF Publish, fileVars
<1>3. \A n \in publishing : n = m
  BY <1>1 DEF RulesInv
<1>4. PICK len \in Nat : len = Len(mailbox) /\ Len(mailbox') = len + 1 /\ mailbox'[len + 1] = m
  BY <1>1 DEF RulesInv
<1>5. \A k \in 1..len : mailbox'[k] = mailbox[k] /\ k \in 1..len + 1 /\ k < len + 1
  BY <1>1, <1>4 DEF RulesInv
<1>6. ~lost => PublishingAgrees /\ MailboxAgrees /\ GoingAgrees
  BY DEF InStep, PendingAgrees
<1>7. \A i : Announced(i)' <=> Announced(i)
  <2> SUFFICES ASSUME NEW i
               PROVE  Announced(i)' <=> Announced(i)
    OBVIOUS
  <2>1. Announced(i)' <=> \E k \in 1..len + 1 : IdOf(mailbox'[k]) = i
    BY <1>1, <1>4 DEF Announced
  <2>2. Announced(i) <=> IdOf(m) = i \/ \E k \in 1..len : IdOf(mailbox[k]) = i
    BY <1>3, <1>4 DEF Announced
  <2>3. \A k \in 1..len + 1 : k = len + 1 \/ k \in 1..len
    OBVIOUS
  <2>4. len + 1 \in 1..len + 1
    OBVIOUS
  <2> QED
    BY <1>4, <1>5, <2>1, <2>2, <2>3, <2>4, Zenon
<1>8. PublishingAgrees'
  BY <1>1 DEF PublishingAgrees
<1>9. ASSUME ~lost
      PROVE  MailboxAgrees'
  <2> SUFFICES ASSUME NEW k \in 1..len + 1,
                      \A j \in 1..len + 1 : j > k => IdOf(mailbox'[j]) # IdOf(mailbox'[k])
               PROVE  Agrees(mailbox[k])'
    BY <1>4 DEF MailboxAgrees
  <2>1. \A n : Agrees(n)' <=> Agrees(n)
    BY <1>2 DEF Agrees
  <2>2. CASE k = len + 1
    BY <1>1, <1>2, <1>4, <1>6, <1>9, <2>2 DEF PublishingAgrees, Agrees
  <2>3. CASE k \in 1..len
    <3>1. \A j \in 1..len : j > k => IdOf(mailbox[j]) # IdOf(mailbox[k])
      BY <1>5, <2>3
    <3>2. \A n \in publishing : IdOf(n) # IdOf(mailbox[k])
      BY <1>3, <1>4, <1>5, <2>3
    <3>3. Agrees(mailbox[k])
      BY <1>4, <1>6, <1>9, <2>3, <3>1, <3>2 DEF MailboxAgrees
    <3> QED
      BY <1>2, <1>5, <2>3, <3>3 DEF Agrees
  <2> QED
    BY <2>2, <2>3
<1>10. GoingAgrees' <=> GoingAgrees
  BY <1>2, <1>7 DEF GoingAgrees, Going
<1>11. TableAgrees' <=> TableAgrees
  BY <1>2, <1>7 DEF TableAgrees, Going, Same
<1>12. FileAgrees'
  BY <1>2 DEF InStep, FileAgrees, Ahead, Same
<1> QED
  BY <1>2, <1>6, <1>8, <1>9, <1>10, <1>11, <1>12 DEF InStep, PendingAgrees

\* The first message is taken from the mailbox.  If nothing else is pending
\* about its rule, it was the last, and agrees.
LEMMA TakenInStep ==
    ASSUME RulesInv, mailbox # <<>>, mailbox' = Tail(mailbox), UNCHANGED <<stored, publishing>>,
           PublishingAgrees, MailboxAgrees, NEW m, m = Head(mailbox)
    PROVE  /\ PublishingAgrees' /\ MailboxAgrees'
           /\ \A i : Announced(i) <=> i = IdOf(m) \/ Announced(i)'
           /\ ~Announced(IdOf(m))' => Agrees(m)
<1>1. PICK len \in Nat : len = Len(mailbox') /\ Len(mailbox) = len + 1 /\ mailbox[1] = m
  BY DEF RulesInv
<1>2. \A k \in 1..len : mailbox'[k] = mailbox[k + 1] /\ k + 1 \in 1..len + 1
  BY <1>1 DEF RulesInv
<1>3. PublishingAgrees'
  BY DEF PublishingAgrees, Agrees
<1>4. \A k \in 1..len + 1 : k = 1 \/ \E j \in 1..len : k = j + 1
  <2> SUFFICES ASSUME NEW k \in 1..len + 1, k # 1
               PROVE  \E j \in 1..len : k = j + 1
    OBVIOUS
  <2>1. k - 1 \in 1..len /\ k = (k - 1) + 1
    OBVIOUS
  <2> QED
    BY <2>1
<1>5. 1 \in 1..len + 1
  OBVIOUS
<1>6. \A i : Announced(i) <=> i = IdOf(m) \/ Announced(i)'
  <2> SUFFICES ASSUME NEW i
               PROVE  Announced(i) <=> i = IdOf(m) \/ Announced(i)'
    OBVIOUS
  <2>1. Announced(i)' <=> \/ \E n \in publishing : IdOf(n) = i
                          \/ \E k \in 1..len : IdOf(mailbox'[k]) = i
    BY <1>1 DEF Announced
  <2>2. Announced(i) <=> \/ \E n \in publishing : IdOf(n) = i
                         \/ \E k \in 1..len + 1 : IdOf(mailbox[k]) = i
    BY <1>1 DEF Announced
  <2> QED
    <3>1. ASSUME NEW k \in 1..len + 1, IdOf(mailbox[k]) = i
          PROVE  i = IdOf(m) \/ Announced(i)'
      <4>1. CASE k = 1
        BY <1>1, <3>1, <4>1
      <4>2. ASSUME NEW j \in 1..len, k = j + 1
            PROVE  Announced(i)'
        <5>1. IdOf(mailbox'[j]) = i
          BY <1>2, <3>1, <4>2
        <5> QED
          BY ONLY <2>1, <5>1, j \in 1..len
      <4> QED
        BY <1>4, <4>1, <4>2
    <3>2. i = IdOf(m) => Announced(i)
      BY ONLY <1>1, <1>5, <2>2
    <3>3. ASSUME NEW k \in 1..len, IdOf(mailbox'[k]) = i
          PROVE  Announced(i)
      <4>1. IdOf(mailbox[k + 1]) = i /\ k + 1 \in 1..len + 1
        BY <1>2, <3>3
      <4> QED
        BY ONLY <2>2, <4>1
    <3> QED
      BY <2>1, <2>2, <3>1, <3>2, <3>3
<1>7. MailboxAgrees'
  <2> SUFFICES ASSUME NEW k \in 1..len,
                      \A j \in 1..len : j > k => IdOf(mailbox'[j]) # IdOf(mailbox'[k]),
                      \A n \in publishing : IdOf(n) # IdOf(mailbox'[k])
               PROVE  Agrees(mailbox[k])'
    BY <1>1 DEF MailboxAgrees
  <2>1. \A j \in 1..len + 1 : j > k + 1 => IdOf(mailbox[j]) # IdOf(mailbox[k + 1])
    <3> SUFFICES ASSUME NEW j \in 1..len + 1, j > k + 1
                 PROVE  IdOf(mailbox[j]) # IdOf(mailbox[k + 1])
      OBVIOUS
    <3>1. PICK h \in 1..len : j = h + 1
      BY <1>4
    <3>2. h > k
      BY ONLY <3>1, len \in Nat, k \in 1..len, j > k + 1
    <3>3. mailbox[j] = mailbox'[h] /\ mailbox[k + 1] = mailbox'[k]
      BY ONLY <1>2, <3>1, k \in 1..len
    <3> QED
      BY <3>1, <3>2, <3>3
  <2>2. Agrees(mailbox[k + 1])
    BY <1>1, <1>2, <2>1 DEF MailboxAgrees
  <2> QED
    BY <1>2, <2>2 DEF Agrees
<1>8. ASSUME ~Announced(IdOf(m))'
      PROVE  Agrees(m)
  <2> DEFINE i == IdOf(m)
  <2>1. (\A n \in publishing : IdOf(n) # i) /\ \A k \in 1..len : IdOf(mailbox'[k]) # i
    BY <1>1, <1>8 DEF Announced
  <2>2. \A j \in 1..len + 1 : j > 1 => IdOf(mailbox[j]) # i
    <3> SUFFICES ASSUME NEW j \in 1..len + 1, j > 1
                 PROVE  IdOf(mailbox[j]) # i
      OBVIOUS
    <3>1. PICK h \in 1..len : j = h + 1
      BY <1>4
    <3>2. mailbox[j] = mailbox'[h]
      BY <1>2, <3>1
    <3> QED
      BY <2>1, <3>2
  <2> QED
    BY <1>1, <1>5, <2>1, <2>2 DEF MailboxAgrees
<1> QED
  BY <1>3, <1>6, <1>7, <1>8

\* RuleSubscriber takes a message up, or finishes a removal.
LEMMA SubscriberInStep ==
    ASSUME RulesInv, RulesInv', InStep,
           SubscriberAdd \/ SubscriberRemove \/ SubscriberRemoved
    PROVE  InStep'
<1>1. UNCHANGED <<lost, misread, stored, file, saving, saved, publishing>>
  BY DEF SubscriberAdd, SubscriberRemove, SubscriberRemoved, adminVars, fileVars
<1>2. FileAgrees'
  BY <1>1 DEF InStep, FileAgrees, Ahead, Same
<1> SUFFICES ASSUME ~lost
             PROVE  PendingAgrees' /\ (~misread => TableAgrees')
  BY <1>1, <1>2 DEF InStep
<1>3. PublishingAgrees /\ MailboxAgrees /\ GoingAgrees /\ (~misread => TableAgrees)
  BY DEF InStep, PendingAgrees
<1>4. stored \subseteq RuleValue /\ \A r, q \in stored : r.id = q.id => r = q
  BY DEF RulesInv, Unique
<1>5. CASE SubscriberAdd
  <2>1. PICK m \in Message : m = Head(mailbox) /\ m.action = "add" /\ m.rule \in RuleValue
    BY <1>5, HeadTyped, MessageTyped DEF SubscriberAdd, RulesInv
  <2>2. mailbox # <<>> /\ mailbox' = Tail(mailbox) /\ ~(\E i : Going(i) \/ Going(i)')
    BY <1>5 DEF SubscriberAdd, Going, Idle, ApplyRule, Busy
  <2>3. tspu_rules' = Without(tspu_rules, m.rule.id) \cup {m.rule}
    BY <1>5, <2>1 DEF SubscriberAdd
  <2>4. /\ PublishingAgrees' /\ MailboxAgrees'
        /\ \A i : Announced(i) <=> i = m.rule.id \/ Announced(i)'
        /\ ~Announced(m.rule.id)' => m.rule \in stored
    BY <1>1, <1>3, <2>1, <2>2, TakenInStep DEF IdOf, Agrees
  <2>5. ASSUME ~misread, NEW i \in Ids, ~Announced(i)'
        PROVE  Same(tspu_rules, i)'
    <3>1. CASE i = m.rule.id
      BY <1>1, <1>4, <2>3, <2>4, <2>5, <3>1 DEF Same, Without
    <3>2. CASE i # m.rule.id
      <4>1. Same(tspu_rules, i)
        BY <1>3, <2>2, <2>4, <2>5, <3>2 DEF TableAgrees
      <4> QED
        BY <1>1, <2>3, <3>2, <4>1 DEF Same, Without
    <3> QED
      BY <3>1, <3>2
  <2> QED
    BY <2>2, <2>4, <2>5 DEF TableAgrees, GoingAgrees, PendingAgrees
<1>6. CASE SubscriberRemove
  <2>1. PICK m \in Message : m = Head(mailbox) /\ m.action = "remove" /\ m.id \in Ids
    BY <1>6, HeadTyped, MessageTyped DEF SubscriberRemove, RulesInv
  <2>2. mailbox # <<>> /\ mailbox' = Tail(mailbox) /\ tspu_rules' = tspu_rules /\ ~(\E i : Going(i))
    BY <1>6 DEF SubscriberRemove, Going, Idle
  <2>3. \A i : Going(i)' <=> i = m.id
    <3> DEFINE found == {r \in tspu_rules : r.id = m.id}
    <3>1. subscriber' = IF found = {} THEN [Idle EXCEPT !.at = "unblock", !.id = {m.id}]
                                      ELSE UnblockForRule(CHOOSE r \in found : TRUE)
      BY <1>6, <2>1 DEF SubscriberRemove
    <3>2. found # {} => (CHOOSE r \in found : TRUE).id = m.id
      OBVIOUS
    <3> HIDE DEF found
    <3>3. subscriber'.at = "unblock" /\ subscriber'.id = {m.id}
      BY <3>1, <3>2 DEF UnblockForRule, Busy, Idle
    <3> QED
      BY <3>3 DEF Going
  <2>4. /\ PublishingAgrees' /\ MailboxAgrees'
        /\ \A i : Announced(i) <=> i = m.id \/ Announced(i)'
        /\ ~Announced(m.id)' => \A r \in stored : r.id # m.id
    BY <1>1, <1>3, <2>1, <2>2, TakenInStep DEF IdOf, Agrees
  <2>5. GoingAgrees'
    BY <1>1, <2>3, <2>4 DEF GoingAgrees
  <2>6. ~misread => TableAgrees'
    BY <1>1, <1>3, <2>2, <2>3, <2>4 DEF TableAgrees, Same
  <2> QED
    BY <2>4, <2>5, <2>6 DEF PendingAgrees
<1>7. CASE SubscriberRemoved
  <2>1. /\ tspu_rules' = {r \in tspu_rules : r.id \notin subscriber.id}
        /\ mailbox' = mailbox /\ subscriber.at = "unblock" /\ subscriber' = Idle
    BY <1>7 DEF SubscriberRemoved
  <2>2. ~(\E i : Going(i)') /\ \A i : Going(i) <=> i \in subscriber.id
    BY <2>1 DEF Going, Idle
  <2>3. PublishingAgrees' /\ MailboxAgrees' /\ \A i : Announced(i)' <=> Announced(i)
    BY <1>1, <1>3, <2>1 DEF PublishingAgrees, MailboxAgrees, Announced, Agrees
  <2>4. ~misread => TableAgrees'
    BY <1>1, <1>3, <1>4, <2>1, <2>2, <2>3 DEF GoingAgrees, TableAgrees, Same
  <2> QED
    BY <2>2, <2>3, <2>4 DEF GoingAgrees, PendingAgrees
<1> QED
  BY <1>5, <1>6, <1>7

\* Steps that leave the store, the file, the table and what is pending alone.
LEMMA OthersInStep ==
    ASSUME InStep, UNCHANGED <<stored, file, saving, saved, publishing, mailbox, tspu_rules, misread>>,
           lost => lost', ~lost' => \A i : Going(i)' <=> Going(i)
    PROVE  InStep'
  BY DEF InStep, PendingAgrees, PublishingAgrees, MailboxAgrees, GoingAgrees, TableAgrees,
         FileAgrees, Ahead, Agrees, Announced, Same

\* Messages and processes are lost, and RuleEngine loads the file.
LEMMA FaultInStep ==
    ASSUME RulesInv, RulesInv', InStep, PublishLost \/ SubscriberCrash \/ EngineCrash
    PROVE  InStep'
<1>1. CASE PublishLost
  <2>1. lost' /\ stored' = stored /\ file' = file /\ (saved' => saved /\ saving = "no")
        /\ saving' = "no"
    BY <1>1 DEF PublishLost
  <2> QED
    BY <2>1 DEF InStep, FileAgrees, Ahead, Same
<1>2. CASE SubscriberCrash
  <2>1. /\ UNCHANGED <<stored, file, saving, saved, publishing, tspu_rules, misread>>
        /\ mailbox' = <<>> /\ subscriber' = Idle
        /\ lost' = (lost \/ mailbox # <<>> \/ subscriber.at = "unblock")
    BY <1>2 DEF SubscriberCrash, adminVars, fileVars
  <2>2. CASE lost'
    BY <2>1, <2>2 DEF InStep, FileAgrees, Ahead, Same
  <2>3. CASE ~lost'
    BY <2>1, <2>3, OthersInStep DEF Going, Idle
  <2> QED
    BY <2>2, <2>3
<1>3. CASE EngineCrash
  <2>1. /\ UNCHANGED <<stored, file, saving, saved, publishing, lost>>
        /\ tspu_rules' = file /\ misread' = ~saved
        /\ \/ mailbox' = <<>> /\ subscriber' = Idle /\ AwaitsEngine
           \/ mailbox' = mailbox /\ subscriber' = subscriber
    BY <1>3 DEF EngineCrash, adminVars, fileVars
  <2>2. FileAgrees /\ FileAgrees'
    BY <2>1 DEF InStep, FileAgrees, Ahead, Same
  <2>3. ~lost' => PendingAgrees'
    <3>1. CASE mailbox' = <<>> /\ subscriber' = Idle
      BY <2>1, <3>1
         DEF InStep, PendingAgrees, PublishingAgrees, MailboxAgrees, GoingAgrees, Agrees, Going, Idle
    <3>2. CASE mailbox' = mailbox /\ subscriber' = subscriber
      BY <2>1, <3>2
         DEF InStep, PendingAgrees, PublishingAgrees, MailboxAgrees, GoingAgrees, Agrees, Going,
             Announced
    <3> QED
      BY <2>1, <3>1, <3>2
  <2>4. ASSUME saved, NEW i \in Ids, ~Announced(i)'
        PROVE  Same(tspu_rules, i)'
    <3>1. ~Ahead(i)
      BY <2>1, <2>4 DEF Announced, Ahead
    <3> QED
      BY <2>1, <2>2, <2>4, <3>1 DEF FileAgrees, Same
  <2> QED
    BY <2>1, <2>2, <2>3, <2>4 DEF InStep, TableAgrees
<1> QED
  BY <1>1, <1>2, <1>3

\* Every step keeps the table in step with the store.
LEMMA NextInStep ==
    ASSUME RulesInv, RulesInv', InStep, [RulesNext]_rulesVars
    PROVE  InStep'
<1>1. ASSUME NEW r \in RuleValue, SaveRule(r)
      PROVE  InStep'
  <2> DEFINE m == [action |-> "add", rule |-> r]
             rules == Without(stored, r.id) \cup {r}
  <2>1. m \in Message /\ IdOf(m) = r.id
    BY DEF Message, IdOf
  <2>2. Stores(rules, m) /\ stored' = rules
    BY <1>1 DEF SaveRule, Stores
  <2>3. Agrees(m)'
    BY <2>2 DEF Agrees
  <2>4. \A q \in RuleValue : q.id # IdOf(m) => (q \in rules <=> q \in stored)
    BY <2>1 DEF Without
  <2> HIDE DEF m, rules
  <2> QED
    BY <2>1, <2>2, <2>3, <2>4, ChangeInStep
<1>2. ASSUME NEW r \in RuleValue, delete_rule(r.id)
      PROVE  InStep'
  <2> DEFINE m == [action |-> "remove", id |-> r.id]
             rules == Without(stored, r.id)
  <2>1. m \in Message /\ IdOf(m) = r.id
    BY DEF Message, IdOf
  <2>2. Stores(rules, m) /\ stored' = rules
    BY <1>2 DEF delete_rule, Stores
  <2>3. Agrees(m)'
    BY <2>2 DEF Agrees, Without
  <2>4. \A q \in RuleValue : q.id # IdOf(m) => (q \in rules <=> q \in stored)
    BY <2>1 DEF Without
  <2> HIDE DEF m, rules
  <2> QED
    BY <2>1, <2>2, <2>3, <2>4, ChangeInStep
<1>3. CASE Save \/ Publish
  BY <1>3, SaveInStep, PublishInStep
<1>4. CASE SubscriberAdd \/ SubscriberRemove \/ SubscriberRemoved
  BY <1>4, SubscriberInStep
<1>5. CASE SubscriberSend \/ SubscriberAsk
  <2>1. subscriber'.at = subscriber.at /\ subscriber'.id = subscriber.id
    <3>1. CASE SubscriberSend
      <4>1. PICK c \in subscriber.sends : subscriber' = [subscriber EXCEPT !.sends = @ \ {c}]
        BY <3>1 DEF SubscriberSend
      <4> QED
        BY <4>1, SentTyped DEF RulesInv
    <3>2. CASE SubscriberAsk
      <4>1. PICK ip \in subscriber.asks : subscriber' = Answered(subscriber, ip)
        BY <3>2 DEF SubscriberAsk
      <4> QED
        BY <4>1 DEF Answered
    <3> QED
      BY <1>5, <3>1, <3>2
  <2>2. UNCHANGED <<stored, file, saving, saved, publishing, mailbox, tspu_rules, lost, misread>>
    BY <1>5 DEF SubscriberSend, SubscriberAsk, adminVars, fileVars
  <2> QED
    BY <2>1, <2>2, OthersInStep DEF Going
<1>6. CASE SubscriberApplied
  BY <1>6, OthersInStep DEF SubscriberApplied, adminVars, fileVars, Going, Idle
<1>7. CASE \/ Engine \/ Midnight \/ SnifferStart \/ SnifferCrash
           \/ UNCHANGED rulesVars
           \/ \E ip \in Ip : \/ WorkerSend(ip) \/ WorkerCrash(ip)
                             \/ \E d \in Name : WorkerEvent(ip, d)
  <2>1. UNCHANGED <<stored, file, saving, saved, publishing, mailbox, tspu_rules, subscriber, lost,
                    misread>>
    BY <1>7 DEF Engine, ResyncBegin, ResyncRule, EngineSend, EngineAsk,
                Midnight, SnifferStart, SnifferCrash, rulesVars, WorkerSend,
                WorkerCrash, WorkerEvent, adminVars, fileVars, elixirVars
  <2> QED
    BY <2>1, OthersInStep DEF Going
<1>8. CASE PublishLost \/ SubscriberCrash \/ EngineCrash
  BY <1>8, FaultInStep
<1> QED
  BY <1>1, <1>2, <1>3, <1>4, <1>5, <1>6, <1>7, <1>8
     DEF RulesNext, Admin, Subscriber, Failure

\* With nothing pending, RuleEngine's table is what the administrator stored,
\* unless a message was lost or RuleEngine last started on a file that was not
\* written: for any number of rules, changes and crashes.
THEOREM TableCatchesUp == RulesSpec => []CaughtUp
<1>1. RulesInit => InStep
  BY DEF RulesInit, InStep, PendingAgrees, PublishingAgrees, MailboxAgrees, GoingAgrees,
         TableAgrees, FileAgrees, Going, Idle, Same
<1>2. RulesInv /\ InStep => CaughtUp
  <2> SUFFICES ASSUME RulesInv, InStep, ~lost, ~misread, publishing = {}, mailbox = <<>>,
                      subscriber.at # "unblock"
               PROVE  tspu_rules = stored
    BY DEF CaughtUp
  <2>1. \A i \in Ids : Same(tspu_rules, i)
    BY DEF InStep, TableAgrees, Announced, Going
  <2>2. tspu_rules \subseteq RuleValue /\ stored \subseteq RuleValue
    BY DEF RulesInv, Unique
  <2> QED
    BY <2>1, <2>2 DEF Same, Ids
<1> QED
  BY <1>1, <1>2, RulesInvHolds, NextInStep, PTL DEF RulesSpec
=============================================================================
