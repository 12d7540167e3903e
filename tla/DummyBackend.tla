---------------------------- MODULE DummyBackend -----------------------------
(***************************************************************************)
(* The golden backend (src/src/backend_dummy.c): a configuration read from *)
(* the environment at every call, and a throttle that spaces the TLPs.     *)
(*                                                                         *)
(* Strings are parsed into what they say: a number is Unset, Garbage or a  *)
(* natural; a profile name is the speed and width written in it.  Time is  *)
(* counted in ticks; a sleep ends at its deadline or later.                *)
(***************************************************************************)
EXTENDS LinkTarget, Sequences, FiniteSets, SequencesExt

CONSTANTS
    Env,        \* environments a client sets up
    Target,     \* links a client asks for
    Second,     \* ticks of one second
    RecvLimit,  \* TLPs the backend delivers per process (1000)
    MaxClock    \* bound: when the clock stops

Unset == -1
Garbage == -2
NoName == [speed |-> 0, width |-> 0]    \* an empty string, or one that is no profile

ASSUME TimeAssumption ==
    Second \in Nat \ {0} /\ RecvLimit \in Nat /\ MaxClock \in Nat

\* The parts of a scenario that the model tells apart: jitter, burst and drop
\* rate are read and used by nothing.
ASSUME ScenarioAssumption ==
    \A e \in Env :
        /\ Len(e.scenario) \in Nat /\ DOMAIN e.scenario = 1 .. Len(e.scenario)
        /\ \A i \in DOMAIN e.scenario :
              e.scenario[i].key \in {"profile", "word", "latency", "tps"}

ASSUME TargetAssumption == Target \subseteq Wanted

VARIABLES
    env,        \* the PCIE_DUMMY_ variables of the process
    clock,      \* CLOCK_MONOTONIC
    nextTx,     \* next_tx_ns, one static for the process
    count,      \* TLPs delivered
    link        \* what the last link query returned

\* History: what the properties compare the state with.
VARIABLES
    paced       \* the last three throttled calls, the newest first: when they
                \* returned, their period, and how long the throttle held them

dummyVars == <<env, clock, nextTx, count, link, paced>>

NoLink == [op |-> "none", status |-> NoStatus, target |-> [gen |-> 0, width |-> 0], pass |-> FALSE]

-----------------------------------------------------------------------------
(* The configuration.                                                       *)

\* dummy_parse_u32 and dummy_parse_duration_ns.
Parsed(v, default) == IF v \in {Unset, Garbage} THEN default ELSE v

\* dummy_profile_from_name: the profiles there are.
IsProfile(name) == name.speed \in 1 .. 8 /\ name.width \in 1 .. 16

\* A name that is no profile changes nothing.
ApplyProfile(cfg, name) ==
    IF IsProfile(name)
    THEN [cfg EXCEPT !.maxSpeed = name.speed, !.negSpeed = name.speed,
                     !.maxWidth = name.width, !.negWidth = name.width]
    ELSE cfg

\* One part of a scenario: key=value, or a bare word, which names a profile
\* when no part before it has.
ApplyPart(cfg, part) ==
    CASE part.key = "profile" -> [cfg EXCEPT !.name = <<part.value>>]
      [] part.key = "word" ->
             IF cfg.name = <<>> THEN [cfg EXCEPT !.name = <<part.value>>] ELSE cfg
      [] part.key = "latency" -> [cfg EXCEPT !.latency = Parsed(part.value, @)]
      [] part.key = "tps" -> [cfg EXCEPT !.tps = Parsed(part.value, @)]

\* Fault: the profile takes effect where it is written.
ApplyScenarioInPlace(cfg, scenario) ==
    FoldLeft(LAMBDA c, part :
                 IF part.key \in {"profile", "word"} THEN ApplyProfile(c, part.value)
                 ELSE ApplyPart(c, part),
             cfg, scenario)

\* dummy_apply_scenario_values: the profile is looked up after the last part.
ApplyScenario(cfg, scenario) ==
    LET done == FoldLeft(ApplyPart, cfg, scenario)
    IN  IF done.name = <<>> THEN done ELSE ApplyProfile(done, done.name[1])

\* dummy_read_runtime_config: single variables, then the profile, then the
\* scenario, and the negotiated values that nobody set.
Config(e) ==
    LET base == [maxSpeed |-> Parsed(e.maxSpeed, 5), negSpeed |-> Parsed(e.negSpeed, 0),
                 maxWidth |-> Parsed(e.maxWidth, 16), negWidth |-> Parsed(e.negWidth, 0),
                 latency |-> Parsed(e.latency, 0), tps |-> Parsed(e.tps, 0),
                 name |-> <<>>]
        cfg == ApplyScenario(ApplyProfile(base, e.profile), e.scenario)
    IN  [cfg EXCEPT !.negSpeed = IF @ = 0 THEN cfg.maxSpeed ELSE @,
                    !.negWidth = IF @ = 0 THEN cfg.maxWidth ELSE @]

\* Rates and widths are parsed as unsigned numbers.
ASSUME ConfigAssumption ==
    \A e \in Env : {Config(e).tps, Config(e).maxWidth, Config(e).negWidth} \subseteq Nat

\* Fault: the widths keep their 32 bits.
StatusFromWide(cfg) ==
    LET width(w) == IF w > 0 THEN w ELSE 1
    IN  [maxGen |-> GenFromCode(cfg.maxSpeed % 256), negGen |-> GenFromCode(cfg.negSpeed % 256),
         maxWidth |-> width(cfg.maxWidth), negWidth |-> width(cfg.negWidth)]

\* dummy_link_status: the numbers are cut to 8 bits, a width after it was
\* tested for 0.
StatusFrom(cfg) ==
    LET width(w) == (IF w > 0 THEN w ELSE 1) % 256
    IN  [maxGen |-> GenFromCode(cfg.maxSpeed % 256), negGen |-> GenFromCode(cfg.negSpeed % 256),
         maxWidth |-> width(cfg.maxWidth), negWidth |-> width(cfg.negWidth)]

-----------------------------------------------------------------------------
(* Link queries; they take no time.                                         *)

DummyLinkStatus ==
    /\ link' = [NoLink EXCEPT !.op = "status", !.status = StatusFrom(Config(env))]
    /\ UNCHANGED <<env, clock, nextTx, count, paced>>

DummyCheckLink(t) ==
    /\ LET s == StatusFrom(Config(env))
       IN  link' = [op |-> "check", status |-> s, target |-> t, pass |-> MeetsTarget(s, t)]
    /\ UNCHANGED <<env, clock, nextTx, count, paced>>

\* The client changes its environment (setenv).
SetEnv ==
    /\ env' \in Env /\ env' # env
    /\ link' = NoLink
    /\ UNCHANGED <<clock, nextTx, count, paced>>

-----------------------------------------------------------------------------
(* Send and receive.                                                        *)

\* The call that entered the throttle at now is added to the last two.
Note(now, end, tps) ==
    paced' = SubSeq(<<[at |-> end, period |-> Second \div tps,
                       waited |-> IF now < nextTx THEN nextTx - now ELSE 0]>> \o paced,
                    1, IF Len(paced) < 3 THEN Len(paced) + 1 ELSE 3)

\* Fault: the next TLP is due one period after this one was due, not after now.
ThrottleFromDue(now, end, tps) ==
    /\ end >= IF now < nextTx THEN nextTx ELSE now
    /\ nextTx' = nextTx + Second \div tps
    /\ Note(now, end, tps)

\* dummy_apply_throttle, entered at now and left at end: it sleeps until the
\* next TLP is due, but counts the period of the following one from now.
Throttle(now, end, tps) ==
    /\ end >= IF now < nextTx THEN nextTx ELSE now
    /\ nextTx' = now + Second \div tps
    /\ Note(now, end, tps)

\* Sleep for the latency, then wait for the throttle; the call may begin late
\* and both sleeps may last longer.
Paced ==
    LET cfg == Config(env)
    IN  \E now, end \in clock .. MaxClock :
            /\ now >= clock + cfg.latency /\ end >= now
            /\ clock' = end
            /\ IF cfg.tps = 0 THEN UNCHANGED <<nextTx, paced>>
               ELSE Throttle(now, end, cfg.tps)

DummySend ==
    /\ Paced
    /\ UNCHANGED <<env, count, link>>

\* When the budget of the process is spent, a receive fails at once.
DummyRecv ==
    /\ count < RecvLimit
    /\ Paced
    /\ count' = count + 1
    /\ UNCHANGED <<env, link>>

-----------------------------------------------------------------------------
DummyInit ==
    /\ env \in Env
    /\ clock = 0 /\ nextTx = 0 /\ count = 0
    /\ link = NoLink
    /\ paced = <<>>

DummyNext ==
    \/ SetEnv
    \/ DummyLinkStatus \/ \E t \in Target : DummyCheckLink(t)
    \/ DummySend \/ DummyRecv

-----------------------------------------------------------------------------
(* Properties.                                                              *)

\* Types of the variables of the golden backend.
DummyTypeOK ==
    /\ env \in Env
    /\ clock \in 0 .. MaxClock /\ nextTx \in 0 .. MaxClock + Second
    /\ count \in 0 .. RecvLimit
    /\ Len(paced) <= 3
    /\ link.status.maxWidth \in 0 .. 255 /\ link.status.negWidth \in 0 .. 255

\* The profile in force: the last one a scenario names by key, else its first
\* bare word, else PCIE_DUMMY_PROFILE; a name that is no profile is skipped.
InForce ==
    LET places(key) == {i \in DOMAIN env.scenario : env.scenario[i].key = key}
        first == IF places("profile") # {} THEN env.scenario[Max(places("profile"))].value
                 ELSE IF places("word") # {} THEN env.scenario[Min(places("word"))].value
                 ELSE NoName
    IN  IF IsProfile(first) THEN first ELSE env.profile

\* A profile in force decides the link alone, wherever in the scenario it
\* stands and whatever the single variables say, and a link check passes
\* exactly when the profile meets the target (dummy_read_runtime_config,
\* dummy_apply_scenario_values).
ProfileDecidesLink ==
    link.op # "none" /\ IsProfile(InForce) =>
        LET p == InForce
        IN  /\ link.status = [maxGen |-> p.speed, negGen |-> p.speed,
                              maxWidth |-> p.width, negWidth |-> p.width]
            /\ link.op = "check" =>
                 (link.pass <=> p.speed >= link.target.gen /\ p.width >= link.target.width)

\* Sends and receives together: between the returns of a throttled call and
\* of the next but one lies at least the period of the one between them, so at
\* most two TLPs share a period; and no call is held for longer than the
\* period of the call before it (dummy_apply_throttle).
AtMostTwoPerPeriod ==
    /\ Len(paced) = 3 => paced[1].at >= paced[3].at + paced[2].period
    /\ Len(paced) >= 2 => paced[1].waited <= paced[2].period
=============================================================================
