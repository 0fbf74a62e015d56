-------------------------------- MODULE Dram ---------------------------------
(***************************************************************************)
(* One channel of memory: the tree of nodes of include/Ramulator/DRAM.h,   *)
(* channel, rank, bank group, bank, subarray, driven by the tables of a    *)
(* standard, and the table of open rows of include/Ramulator/Scheduler.h.  *)
(*                                                                         *)
(* A node is the path of its ids from the channel, which is <<>>; only the *)
(* nodes on the way to the addresses in use are there. A request asks      *)
(* decode() for its next command, and the command is issued in the first   *)
(* later cycle in which check() finds it ready. What the controller does   *)
(* about the order of requests is left open: any request may be next.      *)
(***************************************************************************)
EXTENDS Integers, Sequences, FiniteSets, FiniteSetsExt, SequencesExt

CONSTANTS
    Standards,          \* names of standards
    CommandNumber       \* bound: commands of a behaviour, by its scenario

D3 == INSTANCE DDR3
D4 == INSTANCE DDR4
L3 == INSTANCE LPDDR3
L4 == INSTANCE LPDDR4
G5 == INSTANCE GDDR5
Hb == INSTANCE HBM
W1 == INSTANCE WideIO
W2 == INSTANCE WideIO2
Pc == INSTANCE PCM
St == INSTANCE STTMRAM
Al == INSTANCE ALDRAM
Tl == INSTANCE TLDRAM
Ds == INSTANCE DSARP
Sa == INSTANCE SALP

VARIABLES
    config,             \* the standard, its organization and speed, and the scenario
    speed_entry,        \* the parameters of the standard
    state,              \* DRAM::state of every node
    row_state,          \* DRAM::row_state of every node: the open rows, or subarrays, below
    next,               \* DRAM::next: when a command may be issued as far as a node goes
    clk,                \* the cycle of the last command
    table,              \* RowTable::table: the row of every place where one is open
    failed,             \* an assertion failed
    log                 \* the commands so far; gives DRAM::prev of every node

vars == <<config, speed_entry, state, row_state, next, clk, table, failed, log>>
-----------------------------------------------------------------------------
(* The standards *)

ClassOf == [DDR3 |-> D3!Class, DDR4 |-> D4!Class, LPDDR3 |-> L3!Class, LPDDR4 |-> L4!Class,
            GDDR5 |-> G5!Class, HBM |-> Hb!Class, WideIO |-> W1!Class, WideIO2 |-> W2!Class,
            PCM |-> Pc!Class, STTMRAM |-> St!Class, ALDRAM |-> Al!Class, TLDRAM |-> Tl!Class,
            DSARP |-> Ds!Class, SALP |-> Sa!Class]

OrgsOf == [DDR3 |-> D3!Orgs, DDR4 |-> D4!Orgs, LPDDR3 |-> L3!Orgs, LPDDR4 |-> L4!Orgs,
           GDDR5 |-> G5!Orgs, HBM |-> Hb!Orgs, WideIO |-> W1!Orgs, WideIO2 |-> W2!Orgs,
           PCM |-> Pc!Orgs, STTMRAM |-> St!Orgs, ALDRAM |-> Al!Orgs, TLDRAM |-> Tl!Orgs,
           DSARP |-> Ds!Orgs, SALP |-> Sa!Orgs]

SpeedsOf == [DDR3 |-> D3!Speeds, DDR4 |-> D4!Speeds, LPDDR3 |-> L3!Speeds, LPDDR4 |-> L4!Speeds,
             GDDR5 |-> G5!Speeds, HBM |-> Hb!Speeds, WideIO |-> W1!Speeds, WideIO2 |-> W2!Speeds,
             PCM |-> Pc!Speeds, STTMRAM |-> St!Speeds, ALDRAM |-> Al!Speeds, TLDRAM |-> Tl!Speeds,
             DSARP |-> Ds!Speeds, SALP |-> Sa!Speeds]

PrereqOf == [DDR3 |-> D3!Prereq, DDR4 |-> D4!Prereq, LPDDR3 |-> L3!Prereq, LPDDR4 |-> L4!Prereq,
             GDDR5 |-> G5!Prereq, HBM |-> Hb!Prereq, WideIO |-> W1!Prereq, WideIO2 |-> W2!Prereq,
             PCM |-> Pc!Prereq, STTMRAM |-> St!Prereq, ALDRAM |-> Al!Prereq, TLDRAM |-> Tl!Prereq,
             DSARP |-> Ds!Prereq, SALP |-> Sa!Prereq]

EffectsOf == [DDR3 |-> D3!Effects, DDR4 |-> D4!Effects, LPDDR3 |-> L3!Effects, LPDDR4 |-> L4!Effects,
              GDDR5 |-> G5!Effects, HBM |-> Hb!Effects, WideIO |-> W1!Effects, WideIO2 |-> W2!Effects,
              PCM |-> Pc!Effects, STTMRAM |-> St!Effects, ALDRAM |-> Al!Effects, TLDRAM |-> Tl!Effects,
              DSARP |-> Ds!Effects, SALP |-> Sa!Effects]

RowHitOf == [DDR3 |-> D3!RowHit, DDR4 |-> D4!RowHit, LPDDR3 |-> L3!RowHit, LPDDR4 |-> L4!RowHit,
             GDDR5 |-> G5!RowHit, HBM |-> Hb!RowHit, WideIO |-> W1!RowHit, WideIO2 |-> W2!RowHit,
             PCM |-> Pc!RowHit, STTMRAM |-> St!RowHit, ALDRAM |-> Al!RowHit, TLDRAM |-> Tl!RowHit,
             DSARP |-> Ds!RowHit, SALP |-> Sa!RowHit]

RowOpenOf == [DDR3 |-> D3!RowOpen, DDR4 |-> D4!RowOpen, LPDDR3 |-> L3!RowOpen, LPDDR4 |-> L4!RowOpen,
              GDDR5 |-> G5!RowOpen, HBM |-> Hb!RowOpen, WideIO |-> W1!RowOpen, WideIO2 |-> W2!RowOpen,
              PCM |-> Pc!RowOpen, STTMRAM |-> St!RowOpen, ALDRAM |-> Al!RowOpen, TLDRAM |-> Tl!RowOpen,
              DSARP |-> Ds!RowOpen, SALP |-> Sa!RowOpen]

\* speed_entry and timing once the constructor of a standard has run.
Parameters(std, org, s) ==
    CASE std = "DDR3"    -> D3!Speed(org, s) [] std = "DDR4"    -> D4!Speed(org, s)
      [] std = "LPDDR3"  -> L3!Speed(org, s) [] std = "LPDDR4"  -> L4!Speed(org, s)
      [] std = "GDDR5"   -> G5!Speed(org, s) [] std = "HBM"     -> Hb!Speed(org, s)
      [] std = "WideIO"  -> W1!Speed(org, s) [] std = "WideIO2" -> W2!Speed(org, s)
      [] std = "PCM"     -> Pc!Speed(org, s) [] std = "STTMRAM" -> St!Speed(org, s)
      [] std = "ALDRAM"  -> Al!Speed(org, s) [] std = "TLDRAM"  -> Tl!Speed(org, s)
      [] std = "DSARP"   -> Ds!Speed(org, s) [] std = "SALP"    -> Sa!Speed(org, s)

TimingEntries(std, s) ==
    CASE std = "DDR3"    -> D3!Timing(s) [] std = "DDR4"    -> D4!Timing(s)
      [] std = "LPDDR3"  -> L3!Timing(s) [] std = "LPDDR4"  -> L4!Timing(s)
      [] std = "GDDR5"   -> G5!Timing(s) [] std = "HBM"     -> Hb!Timing(s)
      [] std = "WideIO"  -> W1!Timing(s) [] std = "WideIO2" -> W2!Timing(s)
      [] std = "PCM"     -> Pc!Timing(s) [] std = "STTMRAM" -> St!Timing(s)
      [] std = "ALDRAM"  -> Al!Timing(s) [] std = "TLDRAM"  -> Tl!Timing(s)
      [] std = "DSARP"   -> Ds!Timing(s) [] std = "SALP"    -> Sa!Timing(s)
-----------------------------------------------------------------------------
(* Scenarios: what is asked of which memory *)

\* The organization and speed of the files in configs/, or else of the ones the tests of
\* Ramulator use.
Configured ==
    [DDR3 |-> <<8, 10>>, DDR4 |-> <<5, 7>>, LPDDR3 |-> <<5, 2>>, LPDDR4 |-> <<3, 2>>,
     GDDR5 |-> <<9, 5>>, HBM |-> <<2, 1>>, WideIO |-> <<4, 2>>, WideIO2 |-> <<1, 2>>,
     PCM |-> <<8, 1>>, STTMRAM |-> <<8, 1>>, ALDRAM |-> <<11, 10>>, TLDRAM |-> <<11, 10>>,
     DSARP |-> <<1, 1>>, SALP |-> <<11, 10>>]

Config(std, org, speed, scenario) == [std |-> std, org |-> org, speed |-> speed, scenario |-> scenario]
AsConfigured(std, scenario) == Config(std, Configured[std][1], Configured[std][2], scenario)

OfSeveralRanks == Standards \ {"HBM", "GDDR5", "WideIO"}

Configs ==
    {AsConfigured(std, scenario) : std \in Standards, scenario \in {"rows", "window", "power"}}
        \cup {AsConfigured(std, "ranks") : std \in OfSeveralRanks}
        \cup (UNION {{Config(std, Configured[std][1], s, "turnaround") : s \in DOMAIN SpeedsOf[std]} :
                        std \in Standards})
        \cup (UNION {{Config(std, o, Configured[std][2], "refresh") : o \in DOMAIN OrgsOf[std]} :
                        std \in Standards})

LevelsOf(std) == {"Channel"} \cup ToSet(ClassOf[std].levels)

\* Rules and timings as the code indexes them, by level and command.
RulesByCommand(std, rules) ==
    [l \in LevelsOf(std) |-> [c \in DOMAIN ClassOf[std].scope |->
        {r[3] : r \in {q \in rules : q[1] = l /\ q[2] = c}}]]

TimingByCommand(std, entries) ==
    [l \in LevelsOf(std) |-> [c \in DOMAIN ClassOf[std].scope |->
        LET own == {e \in entries : e.level = l /\ e.prev = c} IN
        [n \in {e.next : e \in own} |-> {e \in own : e.next = n}]]]

Prerequisites == [std \in Standards |-> RulesByCommand(std, PrereqOf[std])]
Lambdas       == [std \in Standards |-> RulesByCommand(std, EffectsOf[std])]
RowHits       == [std \in Standards |-> RulesByCommand(std, RowHitOf[std])]
RowOpens      == [std \in Standards |-> RulesByCommand(std, RowOpenOf[std])]

\* speed_entry and timing of every configuration.
Keys       == {[std |-> c.std, org |-> c.org, speed |-> c.speed] : c \in Configs}
SpeedEntry == [k \in Keys |-> Parameters(k.std, OrgsOf[k.std][k.org], SpeedsOf[k.std][k.speed])]
Timings    == [k \in Keys |-> TimingByCommand(k.std, TimingEntries(k.std, SpeedEntry[k]))]

key    == [std |-> config.std, org |-> config.org, speed |-> config.speed]
class  == ClassOf[config.std]

Levels == Len(class.levels)
Level(node) == IF node = <<>> THEN "Channel" ELSE class.levels[Len(node)]

\* How deep a level is, and how deep the one of a command's scope.
LevelDepth(cls, level) ==
    IF level = "Channel" THEN 0 ELSE CHOOSE i \in DOMAIN cls.levels : cls.levels[i] = level

DepthOf(cls, cmd) ==
    LET l == cls.scope[cmd] IN
    CASE l = "Row" -> Len(cls.levels) + 1 [] l = "Column" -> Len(cls.levels) + 2
      [] OTHER -> LevelDepth(cls, l)

ScopeDepth(cmd) == DepthOf(class, cmd)

\* A place has ids for some levels, and 0 at the others; a bank or subarray of it.
PlaceOf(cls, ids) ==
    [i \in DOMAIN cls.levels |-> IF cls.levels[i] \in DOMAIN ids THEN ids[cls.levels[i]] ELSE 0]

\* The places of a scenario, in the order the scenario of the window takes them.
Places(c) ==
    LET cls     == ClassOf[c.std]
        grouped == "BankGroup" \in ToSet(cls.levels)
        nested  == "SubArray" \in ToSet(cls.levels)
        P(ids)  == PlaceOf(cls, ids)
    IN
    CASE c.scenario = "rows" /\ grouped ->
            <<P([Bank |-> 0]), P([Bank |-> 1]), P([BankGroup |-> 1])>>
      [] c.scenario = "rows" /\ ~grouped /\ nested ->
            <<P([SubArray |-> 0]), P([SubArray |-> 1]), P([Bank |-> 1])>>
      [] c.scenario = "rows" /\ ~grouped /\ ~nested -> <<P([Bank |-> 0]), P([Bank |-> 1])>>
      [] c.scenario = "ranks"  -> <<P([Rank |-> 0]), P([Rank |-> 1])>>
      [] c.scenario = "window" ->
            [i \in 1 .. IF c.std = "WideIO" THEN 4 ELSE 5 |->
                IF grouped THEN P([BankGroup |-> (i - 1) % 4, Bank |-> (i - 1) \div 4])
                           ELSE P([Bank |-> i - 1])]
      [] OTHER -> <<P([Bank |-> 0])>>

\* Rows of the first place, the others have row 0: in a TLDRAM row 0 is near and row 1 far.
RowsOf(c) == IF c.scenario = "rows" THEN {0, 1} ELSE {0}

Types(c) ==
    CASE c.scenario = "rows"    -> {"READ", "WRITE", "REFRESH"}
      [] c.scenario = "refresh" -> {"READ", "REFRESH"}
      [] c.scenario = "window"  -> {"READ"}
      [] c.scenario = "power"   -> {"READ", "POWERDOWN", "SELFREFRESH"}
      [] OTHER                  -> {"READ", "WRITE"}

\* A migration is what a read of a TLDRAM becomes.
RequestTypes(c) == Types(c) \cup (IF c.std = "TLDRAM" /\ "READ" \in Types(c) THEN {"EXTENSION"} ELSE {})

\* addr_vec up to its first -1.
AddressesFor(c, type) ==
    LET places == ToSet(Places(c)) IN
    CASE type \in {"READ", "WRITE", "EXTENSION"} -> 
            {Append(p, 0) : p \in places} \cup {Append(Places(c)[1], r) : r \in RowsOf(c)}
      [] type = "REFRESH" /\ c.std = "DSARP"      -> places
      [] OTHER                                    -> {<<p[1]>> : p \in places}

Requests(c) == UNION {{<<t, a>> : a \in AddressesFor(c, t)} : t \in RequestTypes(c)}

PrereqRules ==
    {"awake", "row open", "subarray open", "row selected", "row open, by segment",
     "row open to migrate", "bank closed", "banks closed", "power down", "self refresh"}

\* What a rule of a node may answer to a command.
Answers(rule, cmd) ==
    CASE rule = "awake"        -> {"MAX", "PDX", "SRX"}
      [] rule = "row open"     -> {"ACT", cmd, "PRE"}
      [] rule = "subarray open" -> {"ACT", "MAX", "PRE"}
      [] rule = "row selected" -> {"ACT", "PRE", cmd, "SASEL"}
      [] rule = "row open, by segment" -> {"ACT", "ACTF", cmd, "PRE", "PREF"}
      [] rule = "row open to migrate"  -> {"ACTM", cmd, "PREM"}
      [] rule = "bank closed"  -> {cmd, "PRE"}
      [] rule = "banks closed" -> {cmd, "PREA"}
      [] rule = "power down"   -> {"SRX", "PDE"}
      [] rule = "self refresh" -> {"PDX", "SRE"}

RankRules == {"close all", "power up", "self refresh", "power down"}

\* How the classes fill their tables: the ranks come first and no level below them is a
\* rank, only ranks are powered down, every command that is asked for is one of the
\* standard, and so are those that the timings are about.
ASSUME TablesAssumption ==
    /\ \A std \in Standards :
        LET cls == ClassOf[std] IN
        /\ cls.levels \in Seq(STRING) /\ cls.levels # <<>>
        /\ \A i \in DOMAIN cls.levels : cls.levels[i] = "Rank" <=> i = 1
        /\ \A c \in DOMAIN cls.scope : cls.scope[c] \in {"Row", "Column"} \cup ToSet(cls.levels)
        /\ \A c \in DOMAIN cls.translate : cls.translate[c] \in DOMAIN cls.scope
        /\ {"READ", "WRITE", "REFRESH", "POWERDOWN", "SELFREFRESH"} \subseteq DOMAIN cls.translate
        /\ std = "TLDRAM" => "EXTENSION" \in DOMAIN cls.translate /\ "MIG" \in DOMAIN cls.scope
        /\ \A q \in PrereqOf[std] :
               /\ q[3] \in PrereqRules
               /\ q[3] = "awake" => q[1] = "Rank"
               /\ Answers(q[3], q[2]) \subseteq {"MAX"} \cup DOMAIN cls.scope
        /\ \A q \in EffectsOf[std] :
               q[1] # "Channel" /\ (q[1] = "Rank" <=> q[3] \in RankRules)
    /\ \A k \in Keys :
        LET entries == TimingEntries(k.std, SpeedEntry[k]) IN
        /\ IsFiniteSet(entries)
        /\ \A e \in entries :
               /\ e.level \in LevelsOf(k.std)
               /\ e.prev \in DOMAIN ClassOf[k.std].scope /\ e.next \in DOMAIN ClassOf[k.std].scope
               /\ e.val \in Int /\ e.dist \in Nat \ {0} /\ e.sib \in BOOLEAN
-----------------------------------------------------------------------------
(* The tree *)

NodesOf(c) == UNION {{SubSeq(p, 1, i) : i \in 0 .. Len(p)} : p \in ToSet(Places(c))}
Nodes == DOMAIN state

Below(node)    == {n \in Nodes : Len(n) > Len(node) /\ IsPrefix(node, n)}
Children(node) == {n \in Below(node) : Len(n) = Len(node) + 1}
Siblings(node) == Children(Front(node)) \ {node}

\* The nodes a command with this address reaches down to a depth.
Path(addr, depth) == {SubSeq(addr, 1, i) : i \in 0 .. Min({Len(addr), depth, Levels})}

\* The rule of a node for a command, if any.
RuleAt(rules, node, cmd) == rules[config.std][Level(node)][cmd]

ChildId(node, addr) == addr[Len(node) + 1]

\* No bank or subarray is open.
AllClosed(node) == \A n \in Below(node) : state[n] \in {"Closed", "MAX"}

PoweredDown == {"ActPowerDown", "PrePowerDown"}

\* One of prereq[], MAX when the node asks for nothing. A row is far unless its number
\* is a multiple of segment_ratio.
Required(rule, node, cmd, addr) ==
    LET found == ChildId(node, addr) \in row_state[node]
        far   == ChildId(node, addr) % 16 # 0
        shut  == state[node] = "Closed"
    IN
    CASE rule = "awake" /\ state[node] = "PowerUp"       -> "MAX"
      [] rule = "awake" /\ state[node] \in PoweredDown   -> "PDX"
      [] rule = "awake" /\ state[node] = "SelfRefresh"   -> "SRX"
      [] rule = "row open" -> IF shut THEN "ACT" ELSE IF found THEN cmd ELSE "PRE"
      [] rule = "subarray open" -> IF shut THEN "ACT" ELSE IF found THEN "MAX" ELSE "PRE"
      [] rule = "row selected" ->
            (CASE shut -> "ACT" [] ~shut /\ ~found -> "PRE"
               [] ~shut /\ found -> IF state[node] = "Selected" THEN cmd ELSE "SASEL")
      [] rule = "row open, by segment" ->
            (CASE shut -> IF far THEN "ACT" ELSE "ACTF" [] ~shut /\ found -> cmd
               [] ~shut /\ ~found -> IF far THEN "PRE" ELSE "PREF")
      [] rule = "row open to migrate" -> IF shut THEN "ACTM" ELSE IF found THEN cmd ELSE "PREM"
      [] rule = "bank closed" -> IF shut THEN cmd ELSE "PRE"
      [] rule = "banks closed" -> IF AllClosed(node) THEN cmd ELSE "PREA"
      [] rule = "power down"   -> IF state[node] = "SelfRefresh" THEN "SRX" ELSE "PDE"
      [] rule = "self refresh" -> IF state[node] \in PoweredDown THEN "PDX" ELSE "SRE"

\* decode(): the requirement of the first node on the way that has one.
Decode(cmd, addr) ==
    LET answers == UNION {{<<n, Required(r, n, cmd, addr)>> : r \in RuleAt(Prerequisites, n, cmd)} :
                             n \in Path(addr, Levels)}
        needs   == {a \in answers : a[2] # "MAX"}
    IN  IF needs = {} THEN cmd
        ELSE (CHOOSE a \in needs : \A b \in needs : Len(a[1]) <= Len(b[1]))[2]

\* check() and get_next(): no node down to the scope objects any more.
ReadyAt(cmd, addr) == Max({next[n][cmd] : n \in Path(addr, ScopeDepth(cmd))})

RowHit(cmd, addr) ==
    \E n \in Path(addr, Levels) :
        /\ RuleAt(RowHits, n, cmd) # {}
        /\ state[n] # "Closed" /\ ChildId(n, addr) \in row_state[n]

RowIsOpen(cmd, addr) ==
    \E n \in Path(addr, Levels) : RuleAt(RowOpens, n, cmd) # {} /\ state[n] # "Closed"
-----------------------------------------------------------------------------
(* update() *)

\* The nodes to which update_state() applies a rule.
Where(cmd, addr, rule) ==
    {n \in Path(addr, ScopeDepth(cmd)) : rule \in RuleAt(Lambdas, n, cmd)}

\* Nodes that a command closes.
Shut(cmd, addr) ==
    Where(cmd, addr, "close") \cup (UNION {Below(n) : n \in Where(cmd, addr, "close all")})
        \cup (UNION {{n} \cup Below(n) : n \in Where(cmd, addr, "close with subarrays")})

Opens(cmd, addr)   == Where(cmd, addr, "open") \cup Where(cmd, addr, "open and select")
Selects(cmd, addr) == Where(cmd, addr, "open and select") \cup Where(cmd, addr, "select")

\* Another subarray of the bank is selected.
Unselected(cmd, addr) ==
    {m \in UNION {Siblings(n) : n \in Selects(cmd, addr)} : state[m] = "Selected"}

StateAfter(cmd, addr, n) ==
    CASE n \in Shut(cmd, addr)                  -> "Closed"
      [] n \in Selects(cmd, addr)               -> "Selected"
      [] n \in Where(cmd, addr, "open")         -> "Opened"
      [] n \in Unselected(cmd, addr)            -> "Opened"
      [] n \in Where(cmd, addr, "power up")     -> "PowerUp"
      [] n \in Where(cmd, addr, "self refresh") -> "SelfRefresh"
      [] n \in Where(cmd, addr, "power down")   ->
            IF AllClosed(n) THEN "PrePowerDown" ELSE "ActPowerDown"
      [] OTHER -> state[n]

\* update_state().
UpdateState(cmd, addr) ==
    /\ state' = [n \in Nodes |-> StateAfter(cmd, addr, n)]
    /\ row_state' = [n \in Nodes |->
            CASE n \in Shut(cmd, addr)  -> {}
              [] n \in Opens(cmd, addr) -> row_state[n] \cup {ChildId(n, addr)}
              [] OTHER -> row_state[n]]

\* The commands of this name at a node, by their positions.
Received(node, cmd) == {i \in DOMAIN log : log[i].cmd = cmd /\ IsPrefix(node, log[i].addr)}

\* A mutant of Past: the present command joins prev only after the look into it.
PastUnjoined(node, cmd, dist, at) ==
    {log[i].clk : i \in {j \in Received(node, cmd) :
                            Cardinality({l \in Received(node, cmd) : l >= j}) = dist}}

\* prev: when cmd was the dist-th last time at a node, at being the time of the present one.
Past(node, cmd, dist, at) ==
    LET since(i) == {j \in Received(node, cmd) : j >= i} IN
    IF dist = 1 THEN {at}
    ELSE {log[i].clk : i \in {j \in Received(node, cmd) : Cardinality(since(j)) = dist - 1}}

\* What an issued command imposes on a later one: entries of a target of the command from
\* its own history, entries of a target's sibling from now.
Futures(node, cmd, entries, at) ==
    UNION {{p + e.val : p \in Past(node, cmd, e.dist, at)} : e \in {f \in entries : ~f.sib}}

\* A mutant of SiblingFutures: entries of siblings are left out, as for a node itself.
SiblingsLeft(entries, at) == {}

SiblingFutures(entries, at) == {at + e.val : e \in {f \in entries : f.sib}}

\* update_timing(): from a target on to all its children.
UpdateTiming(cmd, addr, at) ==
    next' = [n \in Nodes |->
        LET entries == Timings[key][Level(n)][cmd]
            target  == IsPrefix(n, addr)
        IN
        IF ~target /\ ~IsPrefix(Front(n), addr) THEN next[n]
        ELSE [c \in DOMAIN next[n] |->
                IF c \notin DOMAIN entries THEN next[n][c]
                ELSE Max({next[n][c]} \cup IF target THEN Futures(n, cmd, entries[c], at)
                                                  ELSE SiblingFutures(entries[c], at))]]
-----------------------------------------------------------------------------
(* RowTable::update() *)

\* A mutant of Erased: the ids are compared up to the level above the scope.
ErasedAbove(cmd, addr) ==
    IF cmd \notin class.closing THEN {}
    ELSE LET scope == IF cmd \in class.accessing THEN Levels ELSE ScopeDepth(cmd)
         IN  {p \in DOMAIN table : SubSeq(p, 1, scope - 1) = SubSeq(addr, 1, scope - 1)}

\* The places whose entry a closing command removes.
Erased(cmd, addr) ==
    IF cmd \notin class.closing THEN {}
    ELSE LET scope == IF cmd \in class.accessing THEN Levels ELSE ScopeDepth(cmd)
         IN  {p \in DOMAIN table : SubSeq(p, 1, scope) = SubSeq(addr, 1, scope)}

UpdateTable(cmd, addr) ==
    LET place  == SubSeq(addr, 1, Levels)
        erased == Erased(cmd, addr)
        opened == IF cmd \in class.opening /\ place \notin DOMAIN table THEN {place} ELSE {}
    IN
    /\ table' = [p \in (DOMAIN table \cup opened) \ erased |->
                    IF p \in DOMAIN table THEN table[p] ELSE addr[Levels + 1]]
    /\ failed' = \/ failed
                 \/ cmd \in class.accessing
                       /\ (place \notin DOMAIN table \/ table[place] # addr[Levels + 1])
                 \/ cmd \in class.closing /\ erased = {}
-----------------------------------------------------------------------------
(* Behaviours *)

Start(node, cls) ==
    LET level == IF node = <<>> THEN "Channel" ELSE cls.levels[Len(node)] IN
    CASE level = "Rank" -> "PowerUp" [] level \in {"Bank", "SubArray"} -> "Closed" [] OTHER -> "MAX"

Init ==
    /\ config \in Configs
    /\ speed_entry = SpeedEntry[key]
    /\ LET cls == ClassOf[config.std] IN
       /\ state = [n \in NodesOf(config) |-> Start(n, cls)]
       /\ next = [n \in NodesOf(config) |-> [c \in DOMAIN cls.scope |-> -1]]
    /\ row_state = [n \in NodesOf(config) |-> {}]
    /\ clk = 0
    /\ table = <<>>
    /\ failed = FALSE
    /\ log = <<>>

\* The command whose readiness the controller asks for, and the one it issues: the tick()
\* of a TLDRAM turns a read into a migration in between.
Asked(type, addr) == Decode(class.translate[type], addr)
Issued(type, addr) ==
    IF config.std = "TLDRAM" /\ type = "READ" THEN Decode("MIG", addr) ELSE Asked(type, addr)

Issue(type, addr) ==
    LET cmd == Issued(type, addr)
        at  == Max({clk + 1, ReadyAt(Asked(type, addr), addr)})
    IN
    /\ clk' = at
    /\ UpdateState(cmd, addr)
    /\ UpdateTiming(cmd, addr, at)
    /\ UpdateTable(cmd, addr)
    /\ log' = Append(log, [cmd |-> cmd, addr |-> addr, clk |-> at])
    /\ UNCHANGED <<config, speed_entry>>

\* In the scenario of the window every command goes to the next bank, there are four or more.
InTurn(addr) ==
    LET places == Places(config) IN
    config.scenario = "window" => addr = Append(places[(Len(log) % Len(places)) + 1], 0)

Next ==
    \E r \in Requests(config) :
        /\ Len(log) < CommandNumber[config.scenario]
        /\ InTurn(r[2])
        /\ Issue(r[1], r[2])

Done == Len(log) = CommandNumber[config.scenario] /\ UNCHANGED vars

Spec == Init /\ [][Next \/ Done]_vars
-----------------------------------------------------------------------------
(* What the parameters of a standard mean, said of the commands themselves and *)
(* not of the tables of timings                                              *)

\* A parameter, under the first of these names that the standard has.
Param(s, names) ==
    LET known == SelectSeq(names, LAMBDA n : n \in DOMAIN s) IN
    IF known = <<>> THEN 0 ELSE s[known[1]]

\* The name for far, near and migrated rows of a TLDRAM.
BySegment(cmd, names) ==
    CASE cmd \in {"ACTF", "PREF"} -> names[2] [] cmd \in {"ACTM", "PREM"} -> names[3]
      [] OTHER -> names[1]

Writing(cls)     == cls.accessing \cap {"WR", "WRA"}
Reading(cls)     == cls.accessing \ {"WR", "WRA"}
Precharging(cls) == cls.closing \ cls.accessing

\* The distance that later commands keep from earlier ones whose addresses are the same up
\* to a depth.
Gap(prevs, nexts, depth, least) ==
    [prev : prevs, next : nexts, depth : {depth}, least : {least}]

PrechargeTime(cls, s, p) ==
    IF cls.scope[p] = "Rank" THEN Param(s, <<"nRPab", "nRP">>)
    ELSE Param(s, <<"nRPpb", BySegment(p, <<"nRP", "nRPF", "nRPM">>)>>)

\* From a write to its data.
WriteData(s) == Param(s, <<"nCWL">>) + Param(s, <<"nBL">>)

\* A row is accessed, closed and replaced when that is done which came before. The tables
\* of TLDRAM miss two: PREM does not wait for a write, and no activation for PREA.
RowGaps(std, s) ==
    LET cls      == ClassOf[std]
        buffer   == DepthOf(cls, "PRE")
        shut(p)  == IF cls.scope[p] = "Rank" THEN 1 ELSE buffer
        open(a)  == BySegment(a, <<"nRCD", "nRCDF", "nRCDM">>)
        early(p) == std = "TLDRAM" /\ p = "PREA"
    IN
    (UNION {Gap({a}, Reading(cls), buffer, Param(s, <<"nRCDR", open(a)>>))
                \cup Gap({a}, Writing(cls), buffer, Param(s, <<"nRCDW", open(a)>>))
                \cup Gap({a}, cls.opening, buffer, Param(s, <<BySegment(a, <<"nRC", "nRCF", "nRCM">>)>>)) :
                    a \in cls.opening})
        \cup (UNION {Gap({a}, {p}, shut(p), Param(s, <<BySegment(a, <<"nRAS", "nRASF", "nRASM">>)>>)) :
                    a \in cls.opening, p \in Precharging(cls)})
        \cup (UNION {Gap(Reading(cls), {p}, shut(p), Param(s, <<"nRTP">>)) : p \in Precharging(cls)})
        \cup (UNION {Gap(Writing(cls), {p}, shut(p), WriteData(s) + Param(s, <<"nWR">>)) :
                    p \in Precharging(cls) \ {"PREM"}})
        \cup (UNION {Gap({p}, cls.opening, shut(p), PrechargeTime(cls, s, p)) :
                    p \in {q \in Precharging(cls) : ~early(q)}})

\* Commands of a rank leave each other the time to be carried out.
RankGaps(std, s) ==
    LET cls         == ClassOf[std]
        Grouped(gs) == IF cls.levels[2] = "BankGroup" THEN gs ELSE {}
    IN
    Gap(cls.opening, cls.opening, 1, Param(s, <<"nRRDS", "nRRDact", "nRRD">>))
        \cup Grouped(Gap(cls.opening, cls.opening, 2, Param(s, <<"nRRDL">>)))
        \cup Gap(Writing(cls), Reading(cls), 1, WriteData(s) + Param(s, <<"nWTRS", "nWTR">>))
        \cup Grouped(Gap(Writing(cls), Reading(cls), 2, WriteData(s) + Param(s, <<"nWTRL", "nWTR">>)))
        \cup Gap({"REF"}, cls.opening \cup {"REF"}, 1, Param(s, <<"nRFCab", "nRFC">>))
        \cup Gap({"REFPB"}, cls.opening, Len(cls.levels), Param(s, <<"nRFCpb">>))
        \cup (UNION {Gap({p}, {"REF"}, 1, PrechargeTime(cls, s, p)) : p \in Precharging(cls)})
        \cup Gap({"PDX"}, cls.opening \cup cls.accessing, 1, Param(s, <<"nXP", "nXPN">>))
        \cup Gap({"SRX"}, cls.opening, 1, Param(s, <<"nXS", "nXSR">>))

\* By the later command.
Gaps ==
    [k \in Keys |-> [c \in DOMAIN ClassOf[k.std].scope |->
        {g \in RowGaps(k.std, SpeedEntry[k]) \cup RankGaps(k.std, SpeedEntry[k]) : g.next = c}]]

\* The commands before the last one; as every prefix of the log was the log of an earlier
\* state, a property of the last command and these is one of any two.
Earlier == IF log = <<>> THEN {} ELSE ToSet(Front(log))

SameTo(e, f, d) == Len(e.addr) >= d /\ Len(f.addr) >= d /\ SubSeq(e.addr, 1, d) = SubSeq(f.addr, 1, d)

GapsKept ==
    \A e \in Earlier : \A g \in Gaps[key][Last(log).cmd] :
        e.cmd = g.prev /\ SameTo(e, Last(log), g.depth) => Last(log).clk - e.clk >= g.least

\* How many activations start in a rank within the time of the window.
WindowSize(std) == IF std = "WideIO" THEN 2 ELSE 4
WindowTime(s)   == Param(s, <<"nTAW", "nFAW">>)

\* No more activations of one name than the window allows start in a rank within it.
WindowKept ==
    LET last == Last(log) IN
    log # <<>> /\ last.cmd \in class.opening =>
        Cardinality({e \in Earlier : /\ e.cmd = last.cmd /\ SameTo(e, last, 1)
                                     /\ last.clk - e.clk < WindowTime(speed_entry)})
            < WindowSize(config.std)

\* Whatever the requests, commands keep the distances that the parameters of the standard
\* ask for within a row buffer, a bank group and a rank, also when the commands between them
\* went elsewhere, and no window has an activation too many. DRAM<T>::update_timing() only
\* raises what its tables name, node by node, and every standard fills the tables by hand.
TimingsKept == GapsKept /\ WindowKept

\* When a column command moves its data.
Latency(cls, s, cmd) ==
    IF cmd \in Writing(cls) THEN Param(s, <<"nCWL">>) ELSE Param(s, <<"nCL">>) + Param(s, <<"nDQSCK">>)

Burst(e) ==
    LET start == e.clk + Latency(class, speed_entry, e.cmd)
    IN  start .. start + Param(speed_entry, <<"nBL">>) - 1

\* The bursts of a channel, of its ranks, banks and subarrays, never meet on the data bus:
\* the tables only know distances of commands, in which read and write latencies hide.
DataBusFree ==
    \A e \in Earlier :
        {e.cmd, Last(log).cmd} \subseteq class.accessing => Burst(e) \cap Burst(Last(log)) = {}

\* The table of the scheduler and the tree, updated apart by the same commands, agree on the
\* open rows, no assertion of RowTable::update() fails, and check_row_hit() and check_row_open()
\* answer for the addresses in use what the table says; two standards have no rule for the latter.
RowTableAgrees ==
    /\ ~failed
    /\ \A p \in {n \in Nodes : Len(n) = Levels} :
           row_state[p] = IF p \in DOMAIN table THEN {table[p]} ELSE {}
    /\ \A e \in ToSet(log) : Len(e.addr) > Levels =>
           LET place == SubSeq(e.addr, 1, Levels) IN
           /\ RowHit("RD", e.addr) <=> place \in DOMAIN table /\ table[place] = e.addr[Levels + 1]
           /\ RowOpenOf[config.std] # {} => (RowIsOpen("RD", e.addr) <=> place \in DOMAIN table)

\* How far a command is from completing a request.
Distance(cmd) ==
    CASE cmd \in {"PDX", "SRX"} -> 3 [] cmd \in Precharging(class) -> 2
      [] cmd \in class.opening \cup {"SASEL"} -> 1 [] OTHER -> 0

\* A command is issued when it is ready, also where tick() asked about another one; rows are
\* touched only while the rank is powered up; and a command that was issued for a request and
\* did not complete it brings it closer: decode() never asks for the same command or an
\* earlier one again while no other request comes between.
Helpful ==
    \A r \in Requests(config) :
        LET type == r[1]
            addr == r[2]
            cmd  == Issued(type, addr)
            e    == Last(log')
        IN
        e.addr = addr /\ e.cmd = cmd =>
            /\ clk' >= ReadyAt(cmd, addr)
            /\ cmd \in class.opening \cup class.accessing => state[<<addr[1]>>] = "PowerUp"
            /\ Distance(cmd) > 0 => Distance(Issued(type, addr)') < Distance(cmd)
PrerequisitesHelp == [][log' # log => Helpful]_vars
-----------------------------------------------------------------------------
(* That the tables have an entry for every one of these distances            *)

\* The commands that requests lead to: none of them precharges on its own.
Issuable(std) ==
    LET cls == ClassOf[std] IN
    {cls.translate[t] : t \in DOMAIN cls.translate}
        \cup ((UNION {Answers(q[3], q[2]) : q \in PrereqOf[std]}) \ {"MAX"})

\* An entry makes b wait for a at a node that both reach when their addresses are the same up
\* to a depth.
Enforces(t, cls, a, b, depth, least) ==
    /\ t.prev = a /\ t.next = b /\ t.val >= least
    /\ LevelDepth(cls, t.level) <= depth /\ LevelDepth(cls, t.level) <= DepthOf(cls, b)

\* From one burst to the next.
BurstGap(cls, s, a, b) == Latency(cls, s, a) + Param(s, <<"nBL">>) - Latency(cls, s, b)

\* The commands that the tick() of a TLDRAM issues in place of the ones it found ready.
StandIns == {<<"ACT", "ACTM">>, <<"ACTF", "ACTM">>, <<"PRE", "PREM">>, <<"PREF", "PREM">>, <<"RD", "MIG">>}

\* Every distance is that of an entry which looks back to the last command, every window that of
\* one which looks back further, and where there are several ranks an entry between siblings
\* keeps the data bus free.
ASSUME GapsAssumption ==
    /\ \A std \in Standards :
        LET cls == ClassOf[std] IN
        /\ Issuable(std) \subseteq DOMAIN cls.scope
        /\ cls.opening \subseteq DOMAIN cls.scope
    /\ \A k \in Keys :
        LET cls     == ClassOf[k.std]
            s       == SpeedEntry[k]
            entries == TimingEntries(k.std, s)
            issued  == Issuable(k.std)
        IN
        /\ \A c \in issued : \A g \in Gaps[k][c] :
               /\ g.depth \in Nat /\ g.least \in Int
               /\ g.prev \in issued => \E t \in entries :
                      t.dist = 1 /\ ~t.sib /\ Enforces(t, cls, g.prev, c, g.depth, g.least)
        /\ WindowTime(s) \in Int
        /\ \A c \in cls.opening : \E t \in entries :
               /\ t.dist = WindowSize(k.std) /\ ~t.sib /\ t.level = "Rank"
               /\ Enforces(t, cls, c, c, 1, WindowTime(s))
        /\ Param(s, <<"nBL">>) \in Int
        /\ \A a \in issued \cap cls.accessing : Latency(cls, s, a) \in Int
        /\ \A a, b \in issued \cap cls.accessing : \E t \in entries :
               /\ t.dist = 1 /\ ~t.sib /\ Enforces(t, cls, a, b, 1, BurstGap(cls, s, a, b))
               /\ \/ t.level = "Channel"
                  \/ k.std \notin OfSeveralRanks
                  \/ \E u \in entries : u.level = "Rank" /\ u.sib /\ Enforces(u, cls, a, b, 1, BurstGap(cls, s, a, b))
    /\ \A c \in Configs : c.std \notin OfSeveralRanks => \A r \in Requests(c) : r[2][1] = 0

\* In a TLDRAM the command that is issued is bound by no entry that the one which was ready is not.
ASSUME StandInsAssumption ==
    "TLDRAM" \in Standards =>
        LET cls == ClassOf["TLDRAM"] IN
        /\ cls.levels = <<"Rank", "Bank">> /\ cls.translate["READ"] = "RD" /\ cls.translate["EXTENSION"] = "MIG"
        /\ {q \in PrereqOf["TLDRAM"] : q[2] = "RD"} =
               {<<"Rank", "RD", "awake">>, <<"Bank", "RD", "row open, by segment">>}
        /\ {q \in PrereqOf["TLDRAM"] : q[2] = "MIG"} =
               {<<"Rank", "MIG", "awake">>, <<"Bank", "MIG", "row open to migrate">>}
        /\ \A p \in StandIns : cls.scope[p[1]] = cls.scope[p[2]]
        /\ \A k \in {l \in Keys : l.std = "TLDRAM"} :
               LET entries == TimingEntries(k.std, SpeedEntry[k]) IN
               \A p \in StandIns : \A t \in {e \in entries : e.next = p[2]} : \E u \in entries :
                   /\ u.next = p[1] /\ u.prev = t.prev /\ u.level = t.level /\ u.sib = t.sib
                   /\ u.dist <= t.dist /\ u.val >= t.val
-----------------------------------------------------------------------------
(* What the rules of the standards have in common about rows                 *)

\* The commands of rows, by their names.
Openers == {"ACT", "ACTF", "ACTM"}
Closers == {"PRE", "PREF", "PREM", "PREA"}

\* Rules of the nodes that have rows, and of a rank.
RowRules  == {"row open", "row selected", "row open, by segment", "row open to migrate"}
IdleRules == {"power down", "self refresh", "banks closed"}

\* Standards in which a bank knows its open subarrays.
OfOpenSubarrays == {std \in Standards : \E q \in PrereqOf[std] : q[3] = "subarray open"}

\* The rules of a table for a command, with their levels.
RulesFor(rules, cmd) == {<<q[1], q[3]>> : q \in {r \in rules : r[2] = cmd}}

\* What opens a row or closes it does so at the lowest level, and no other command does; a bank
\* that knows its subarrays follows them. Reads, writes and migrations look for the row at the
\* lowest level, and the other commands only for open ones.
ASSUME RowsAssumption ==
    \A std \in Standards :
        LET cls    == ClassOf[std]
            m      == Len(cls.levels)
            bottom == cls.levels[m]
            bank   == cls.levels[m - 1]
            nested == std \in OfOpenSubarrays
        IN
        /\ IsInjective(cls.levels)
        /\ m >= 2 /\ bottom \in {"Bank", "SubArray"}
        /\ nested => m >= 3 /\ bank = "Bank"
        /\ cls.opening \subseteq Openers
        /\ Issuable(std) \cap cls.closing \subseteq Closers
        /\ cls.accessing \cap (Openers \cup Closers \cup {"SASEL", "PDE", "PDX", "SRE", "SRX"}) = {}
        /\ DepthOf(cls, "PREA") = 1
        /\ \A c \in Issuable(std) :
               LET effects == RulesFor(EffectsOf[std], c) IN
               /\ c \in cls.opening =>
                      /\ DepthOf(cls, c) >= m
                      /\ \E u \in {"open", "open and select"} :
                             effects = {<<bottom, u>>} \cup (IF nested THEN {<<bank, "open">>} ELSE {})
               /\ c \in cls.closing =>
                      \/ effects = {<<"Rank", "close all">>} /\ DepthOf(cls, c) = 1
                      \/ effects = {<<bottom, "close">>} /\ DepthOf(cls, c) = m /\ ~nested
                      \/ effects = {<<bank, "close with subarrays">>} /\ DepthOf(cls, c) = m - 1 /\ nested
               /\ c \notin cls.opening \cup cls.closing =>
                      \A e \in effects : \/ e[1] = "Rank" /\ e[2] # "close all"
                                         \/ c = "SASEL" /\ e = <<bottom, "select">>
        /\ \A t \in DOMAIN cls.translate :
               LET c     == cls.translate[t]
                   needs == RulesFor(PrereqOf[std], c)
               IN
               /\ c \notin Openers \cup Closers \cup {"SASEL", "MAX"}
               /\ t \in {"READ", "WRITE", "EXTENSION"} =>
                      /\ \E u \in RowRules : <<bottom, u>> \in needs
                      /\ \A e \in needs : \/ e = <<"Rank", "awake">>
                                          \/ nested /\ e = <<bank, "subarray open">>
                                          \/ e[1] = bottom /\ e[2] \in RowRules
               /\ t \notin {"READ", "WRITE", "EXTENSION"} =>
                      /\ c \notin cls.accessing
                      /\ \A e \in needs : \/ e[1] = "Rank" /\ e[2] \in IdleRules
                                          \/ nested /\ e = <<bank, "bank closed">>
        /\ "RD" \in DOMAIN cls.scope /\ RulesFor(RowHitOf[std], "RD") = {<<bottom, "row">>}
        /\ RowOpenOf[std] # {} => RulesFor(RowOpenOf[std], "RD") = {<<bottom, "row">>}
=============================================================================
