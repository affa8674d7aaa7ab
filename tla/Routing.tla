------------------------------ MODULE Routing -------------------------------
(***************************************************************************)
(* One process that executes claims with a MultiBackendExecutor: which     *)
(* profile an execution gets (the card's pin, the router, the default of   *)
(* the role), on which backend it runs and on which it falls back, which   *)
(* text it reads as the answer, and what it returns of all this.           *)
(*                                                                         *)
(* The process keeps state between executions: the router's decisions, its *)
(* last outcome of each card and role, the router client with the          *)
(* directory it works in, and the inbox of the ACP servers.  The scheduler *)
(* commits results meanwhile, in a process of its own or in this one, and  *)
(* other workers and the operator change the cards.                        *)
(*                                                                         *)
(* The ACP manager is not in the repository.  Its servers tag the chunks   *)
(* they stream with their session, some of them not always.  No planner    *)
(* recommendation is wired to the executor.  A run is cut off in Dispatch, *)
(* not here.                                                               *)
(***************************************************************************)
EXTENDS Naturals, FiniteSets, Sequences

CONSTANTS
    Cards, Criteria,
    Profiles,     \* the names in agent_profiles.yaml
    Configs,      \* the files the operator may have written
    Pins,         \* what a card may name: profiles, other names, NoProfile
    NoProfile, Project, Nothing,
    RetryBudget, ReworkBudget,
    MaxEdits      \* a bound for model checking: changes by the operator

Roles == {"planner", "worker", "reviewer"}
Stages == Roles \cup {"over"}
Dirs == Cards \cup {Project}
BackendTypes == {"subagent", "acp"}

Config == [role : [Profiles -> Roles],
           backend : [Profiles -> BackendTypes],
           fallback : [Profiles -> Profiles \cup {NoProfile}],
           default : [Roles -> Profiles \cup {NoProfile}],
           router : SUBSET Roles,     \* the roles it is enabled for
           shared : BOOLEAN]          \* does the scheduler use this executor?

ASSUME RoutingAssumption ==
    /\ Configs \subseteq Config
    /\ NoProfile \notin Profiles /\ NoProfile \in Pins
    /\ Project \notin Cards
    /\ RetryBudget \in Nat /\ ReworkBudget \in Nat /\ MaxEdits \in Nat

(* What an execution is given of a card, and what the router is shown.     *)
Seen == [pin : Pins, criteria : SUBSET Criteria, rework : 0..ReworkBudget]

(* A decision of the router, and what it was made about.                   *)
About == [card : Cards, role : Roles, seen : Seen]
Decision == [choice : Profiles \cup {NoProfile}, outage : BOOLEAN, about : About]
Key == [card : Cards, role : Roles, pin : Pins, criteria : SUBSET Criteria,
        rework : 0..ReworkBudget]

(* What the executor returns or raises, apart from how it was routed.  It  *)
(* is all that an envelope keeps: neither the profile nor the backend, the *)
(* router's reason and version or the fallback are written to it.          *)
Submission ==
    [kind : {"ok", "blocked", "rework", "infra"}, criteria : SUBSET Criteria,
     reasons : SUBSET Criteria]

(* Chunks in the inbox during a prompt: of its session; of an earlier one  *)
(* of the same server, with that session's tag or without; of another      *)
(* server; and any that was there before the prompt.                       *)
Chunks == {"own", "tagged", "untagged", "left", "elsewhere"}

(* One execution, as run_once and the executor know it.                    *)
Execution ==
    [card : Cards, role : Roles, at : {"resolve", "invoke", "prompt", "reply", "over"},
     seen : Seen, dir : Dirs, saved : Dirs \cup {Nothing},
     profile : Profiles \cup {NoProfile}, source : {"none", "card", "policy", "default"},
     decision : Decision \cup {Nothing}, version : About \cup {Nothing},
     routedIn : Dirs \cup {Nothing},
     tries : Seq([profile : Profiles, end : {"text", "infra", "config"}]),
     heard : SUBSET Chunks, named : BOOLEAN, returned : Submission \cup {Nothing}]

(* None is nothing else, and no directory is the state of a client.        *)
ASSUME NothingAssumption ==
    /\ Nothing \notin Dirs /\ Nothing \notin About /\ Nothing \notin Decision
    /\ Nothing \notin Execution /\ Nothing \notin Submission
    /\ {"unloaded", "missing"} \cap Dirs = {}

VARIABLES
    cfg,       \* the configuration the process has loaded
    card,      \* the cards: their pin, criteria, reworks, stage and attempt
    cache,     \* the decisions of the router that are kept
    last,      \* the last outcome of the policy, by card and role
    client,    \* the router client: "unloaded", "missing", or its directory
    inbox,     \* the chunks streamed by ACP servers and not yet taken
    streamed,  \* has a session ended whose chunks may still come?
    run,       \* the execution, or Nothing
    result,    \* the results not yet committed
    edits

policy == <<cache, last, client>>
servers == <<inbox, streamed>>
vars == <<cfg, card, policy, servers, run, result, edits>>

-----------------------------------------------------------------------------
(* agent_profiles.yaml: what load_config accepts.                          *)
DefaultsFit(c) ==
    \A role \in Roles : c.default[role] \in Profiles /\ c.role[c.default[role]] = role

FallbacksFit(c) ==
    \A p \in Profiles : c.fallback[p] # NoProfile => c.role[c.fallback[p]] = c.role[p]

Circular(c) ==
    \E ring \in SUBSET Profiles \ {{}} : \A p \in ring : c.fallback[p] \in ring

(* Mutant: the role of a fallback is not looked at.                        *)
LoadsAnyFallback(c) == DefaultsFit(c) /\ ~Circular(c)

Loads(c) == DefaultsFit(c) /\ FallbacksFit(c) /\ ~Circular(c)

Init ==
    /\ cfg \in {c \in Configs : Loads(c)}
    /\ \E pin \in [Cards -> Pins] :
          card = [c \in Cards |-> [pin |-> pin[c], criteria |-> {}, rework |-> 0,
                                   stage |-> "planner", attempt |-> 0]]
    /\ cache = {} /\ last = [c \in Cards |-> [role \in Roles |-> Nothing]]
    /\ client = "unloaded"
    /\ inbox = {} /\ streamed = FALSE
    /\ run = Nothing /\ result = [c \in Cards |-> Nothing]
    /\ edits = 0

-----------------------------------------------------------------------------
(* The executor's directory, and the router's, are patched for a claim     *)
(* with a worktree and put back at the end.  A client that does not exist  *)
(* yet is neither.                                                         *)
DirOf(c, role) == IF role = "planner" THEN Project ELSE c

(* Mutant: the client keeps the directory it was created with.             *)
PatchPolicyOnly(dir) == [patched |-> client, saved |-> Nothing]

Patch(dir) ==
    IF dir \in Cards /\ client \in Dirs
    THEN [patched |-> dir, saved |-> client]
    ELSE [patched |-> client, saved |-> Nothing]

Restored(now) == IF run.saved = Nothing THEN now ELSE run.saved

Running(at) == run # Nothing /\ run.at = at

Start(c) ==
    /\ run = Nothing /\ result[c] = Nothing /\ card[c].stage \in Roles
    /\ LET dir == DirOf(c, card[c].stage) IN
          /\ client' = Patch(dir).patched
          /\ run' = [card |-> c, role |-> card[c].stage, at |-> "resolve",
                     seen |-> [pin |-> card[c].pin, criteria |-> card[c].criteria,
                               rework |-> card[c].rework],
                     dir |-> dir, saved |-> Patch(dir).saved,
                     profile |-> NoProfile, source |-> "none", decision |-> Nothing,
                     version |-> Nothing, routedIn |-> Nothing,
                     tries |-> <<>>, heard |-> {}, named |-> TRUE, returned |-> Nothing]
    /\ UNCHANGED <<cfg, card, cache, last, servers, result, edits>>

(* The executor returns, or raises; what it returns says how it was routed.*)
End(final, kind, criteria, reasons, now) ==
    /\ run' = [final EXCEPT !.at = "over",
                  !.returned = [kind |-> kind, criteria |-> criteria, reasons |-> reasons]]
    /\ client' = now

(* run_once submits that for the claim and puts the directories back.      *)
Submit ==
    /\ Running("over")
    /\ result' = [result EXCEPT ![run.card] = run.returned]
    /\ run' = Nothing
    /\ client' = Restored(client)
    /\ UNCHANGED <<cfg, card, cache, last, servers, edits>>

-----------------------------------------------------------------------------
(* Resolution: the pin, the router, the default of the role.  The reason   *)
(* and the prompt version of the router are read from its last outcome.    *)
Pinned == run.seen.pin \in Profiles /\ cfg.role[run.seen.pin] = run.role

(* Mutant: the last outcome is read whether or not the router was asked.   *)
VersionUngated(source, outcome) == IF outcome = Nothing THEN Nothing ELSE outcome.about

VersionOf(source, outcome) ==
    IF source = "card" \/ outcome = Nothing THEN Nothing ELSE outcome.about

Use(p, source, decision, where) ==
    run' = [run EXCEPT !.at = "invoke", !.profile = p, !.source = source,
                       !.decision = decision, !.routedIn = where,
                       !.version = VersionOf(source, last'[run.card][run.role])]

UsePin ==
    /\ Running("resolve") /\ run.seen.pin # NoProfile
    /\ \/ /\ Pinned
          /\ UNCHANGED policy
          /\ Use(run.seen.pin, "card", Nothing, Nothing)
       \/ /\ run.seen.pin \notin Profiles
          /\ End(run, "blocked", {}, {}, client)
          /\ UNCHANGED <<cache, last>>
    /\ UNCHANGED <<cfg, card, servers, result, edits>>

(* The router's answer becomes the profile when it names one; a profile of *)
(* another role would be an error.                                         *)
Decide(decision, now, where) ==
    /\ last' = [last EXCEPT ![run.card][run.role] = decision]
    /\ IF decision = Nothing \/ decision.choice = NoProfile
       THEN /\ Use(cfg.default[run.role], "default", decision, where)
            /\ client' = now
       ELSE IF cfg.role[decision.choice] = run.role
       THEN /\ Use(decision.choice, "policy", decision, where)
            /\ client' = now
       ELSE End(run, "blocked", {}, {}, now)

(* Mutant: the router may name a profile of any role.                      *)
AllCandidates == Profiles

Candidates == {p \in Profiles : cfg.role[p] = run.role}

AskPolicy == Running("resolve") /\ run.seen.pin \in Profiles \cup {NoProfile} /\ ~Pinned

Routable == run.role \in cfg.router /\ Cardinality(Candidates) > 1

(* Mutant: the rendered request does not show the rework.                  *)
RequestWithoutRework == [card |-> run.card, role |-> run.role, pin |-> run.seen.pin,
                         criteria |-> run.seen.criteria]

(* The rendered request, whose digest is the key of the cache.             *)
Request == [card |-> run.card, role |-> run.role, pin |-> run.seen.pin,
            criteria |-> run.seen.criteria, rework |-> run.seen.rework]

Kept == {entry \in cache : entry.key = Request}

SkipRouter ==
    /\ AskPolicy
    /\ ~Routable \/ (Kept = {} /\ client = "missing")
    /\ Decide(Nothing, client, Nothing)
    /\ UNCHANGED <<cfg, card, cache, servers, result, edits>>

Recall ==
    /\ AskPolicy /\ Routable
    /\ \E entry \in Kept : Decide(entry.decision, client, Nothing)
    /\ UNCHANGED <<cfg, card, cache, servers, result, edits>>

(* The client is created by the first request, in the directory patched    *)
(* into the policy.  Without a specification there is never a router; one  *)
(* that cannot be parsed fails the execution, now and the next time.       *)
LoadClient ==
    /\ AskPolicy /\ Routable /\ Kept = {} /\ client = "unloaded"
    /\ \/ client' \in {run.dir, "missing"} /\ UNCHANGED run
       \/ End(run, "infra", {}, {}, client)
    /\ UNCHANGED <<cfg, card, cache, last, servers, result, edits>>

Answers == Candidates \X {FALSE} \cup {NoProfile} \X BOOLEAN

(* The router picks, declines or names something else, or fails: a failure *)
(* is not kept.                                                            *)
Route ==
    /\ AskPolicy /\ Routable /\ Kept = {} /\ client \in Dirs
    /\ \E answer \in Answers :
          LET decision == [choice |-> answer[1], outage |-> answer[2],
                           about |-> [card |-> run.card, role |-> run.role, seen |-> run.seen]]
          IN  /\ Decide(decision, client, client)
              /\ cache' = IF decision.outage THEN cache
                          ELSE cache \cup {[key |-> Request, decision |-> decision]}
    /\ UNCHANGED <<cfg, card, servers, result, edits>>

-----------------------------------------------------------------------------
(* The backends.                                                           *)
Tried(end) == Append(run.tries, [profile |-> run.profile, end |-> end])

(* Mutant: a configuration error falls back, too.                          *)
FallBackAlways(end) ==
    /\ Len(run.tries) = 0 /\ end # "text" /\ cfg.fallback[run.profile] # NoProfile

(* One infrastructure failure, one fallback.                               *)
FallBack(end) ==
    /\ Len(run.tries) = 0 /\ end = "infra" /\ cfg.fallback[run.profile] # NoProfile

(* A failed attempt: the fallback is tried, the claim fails and is retried,*)
(* or the card is blocked.                                                 *)
Failed(end) ==
    IF FallBack(end)
    THEN /\ run' = [run EXCEPT !.at = "invoke", !.tries = Tried(end),
                               !.profile = cfg.fallback[run.profile]]
         /\ UNCHANGED client
    ELSE End([run EXCEPT !.tries = Tried(end)],
             IF end = "infra" THEN "infra" ELSE "blocked", {}, {}, client)

Heard(chunks, named) ==
    run' = [run EXCEPT !.at = "reply", !.tries = Tried("text"), !.heard = chunks,
                       !.named = named]

InvokeSubagent ==
    /\ Running("invoke") /\ cfg.backend[run.profile] = "subagent"
    /\ \/ Heard({"own"}, TRUE) /\ UNCHANGED client
       \/ Failed("infra")
       \/ Failed("config")
    /\ UNCHANGED <<cfg, card, cache, last, servers, result, edits>>

(* Mutant: what an earlier session has left in the inbox is not dropped.   *)
InvokeUndrained ==
    /\ Running("invoke") /\ cfg.backend[run.profile] = "acp"
    /\ \/ Failed("config")
       \/ run' = [run EXCEPT !.at = "prompt"] /\ UNCHANGED client
    /\ UNCHANGED <<cfg, card, cache, last, servers, result, edits>>

(* An ACP target that is not defined, or a session: the inbox is drained.  *)
InvokeAcp ==
    /\ Running("invoke") /\ cfg.backend[run.profile] = "acp"
    /\ \/ Failed("config") /\ UNCHANGED inbox
       \/ inbox' = {} /\ run' = [run EXCEPT !.at = "prompt"] /\ UNCHANGED client
    /\ UNCHANGED <<cfg, card, cache, last, streamed, result, edits>>

(* Chunks of the prompt, and late ones of those before it.                 *)
Arriving ==
    (IF Running("prompt") THEN {"own"} ELSE {})
        \cup (CASE ~streamed -> {}
                [] Running("prompt") -> {"tagged", "untagged", "elsewhere"}
                [] OTHER -> {"left"})

Stream ==
    /\ \E chunk \in Arriving : inbox' = inbox \cup {chunk}
    /\ UNCHANGED <<cfg, card, policy, streamed, run, result, edits>>

(* What the chunks of a prompt are to the next one.                        *)
Afterwards(chunks) == IF chunks = {} THEN {} ELSE {"left"}

(* The chunks of the turn's server that carry no other session: also those *)
(* without a tag, and any of that server if the turn itself has no name.   *)
Collect(named) ==
    inbox \cap ({"own", "untagged", "left"} \cup (IF named THEN {} ELSE {"tagged"}))

(* prompt_once returns, when the whole answer may not be in the inbox yet, *)
(* with the name of the session or, from an older server, without one.     *)
PromptReturns ==
    /\ Running("prompt")
    /\ \E named \in BOOLEAN : Heard(Collect(named), named)
    /\ inbox' = {} /\ streamed' = TRUE
    /\ UNCHANGED <<cfg, card, policy, result, edits>>

(* It raises: a failure of the infrastructure, or a question to the user.  *)
PromptFails ==
    /\ Running("prompt")
    /\ \E end \in {"infra", "config"} : Failed(end)
    /\ inbox' = Afterwards(inbox) /\ streamed' = TRUE
    /\ UNCHANGED <<cfg, card, cache, last, result, edits>>

-----------------------------------------------------------------------------
(* The answer.                                                             *)
Reply(kind, criteria, reasons) ==
    /\ Running("reply")
    /\ End(run, kind, criteria, reasons, client)
    /\ UNCHANGED <<cfg, card, cache, last, servers, result, edits>>

Structured == run.heard # {}

(* Text without a fenced answer, no text included, counts as success, as   *)
(* a fenced one does, except for the planner.                              *)
ReplyText ==
    /\ Running("reply")
    /\ Reply(IF run.role = "planner" THEN "infra" ELSE "ok", {}, {})

ReplyNo ==
    /\ Running("reply") /\ Structured
    /\ \/ Reply("blocked", {}, {})
       \/ run.role = "reviewer" /\ Reply("rework", {}, {})

(* Mutant: a new list replaces the old one without reasons.                *)
Supersedes(new, reasons) == new # {} \/ run.seen.criteria # {}

(* A planner's list must give a reason for every criterion it drops.       *)
Acceptable(new, reasons) ==
    /\ new # {} \/ run.seen.criteria # {}
    /\ new # {} => run.seen.criteria \ new \subseteq reasons

ReplyPlan ==
    /\ Running("reply") /\ Structured /\ run.role = "planner"
    /\ \E new, reasons \in SUBSET Criteria :
          Reply(IF Acceptable(new, reasons) THEN "ok" ELSE "blocked", new, reasons)

-----------------------------------------------------------------------------
(* The scheduler commits the result; accepted reworks invalidate the       *)
(* router's memory of the card, in the executor the scheduler has.         *)
After == [planner |-> "worker", worker |-> "reviewer", reviewer |-> "over"]

(* Mutant: a claim is retried once too often.                              *)
MayRetryAgain(k) == k.attempt <= RetryBudget

MayRetry(k) == k.attempt < RetryBudget

Applied(k, kind, criteria) ==
    CASE kind = "ok" ->
             [k EXCEPT !.stage = After[k.stage], !.attempt = 0,
                       !.criteria = IF criteria = {} THEN @ ELSE criteria]
      [] kind = "rework" /\ k.rework < ReworkBudget ->
             [k EXCEPT !.stage = "worker", !.attempt = 0, !.rework = @ + 1]
      [] kind = "infra" /\ MayRetry(k) ->
             [k EXCEPT !.attempt = @ + 1]
      [] OTHER -> [k EXCEPT !.stage = "over", !.attempt = 0]

Forget(c) ==
    /\ cache' = {entry \in cache : entry.key.card # c}
    /\ last' = [last EXCEPT ![c] = [role \in Roles |-> Nothing]]

Commit(c) ==
    /\ result[c] # Nothing
    /\ card' = [card EXCEPT ![c] = Applied(@, result[c].kind, result[c].criteria)]
    /\ result' = [result EXCEPT ![c] = Nothing]
    /\ \/ cfg.shared /\ card'[c].rework # card[c].rework /\ Forget(c)
       \/ ~(cfg.shared /\ card'[c].rework # card[c].rework) /\ UNCHANGED <<cache, last>>
    /\ UNCHANGED <<cfg, client, servers, run, edits>>

Idle(c) == result[c] = Nothing /\ (run # Nothing => run.card # c)

(* Another worker executes the card, with an executor of its own.          *)
Elsewhere(c) ==
    /\ ~cfg.shared /\ Idle(c) /\ card[c].stage \in Roles \ {"planner"}
    /\ \E kind \in {"ok", "infra"} \cup (IF card[c].stage = "reviewer" THEN {"rework"} ELSE {}) :
          card' = [card EXCEPT ![c] = Applied(@, kind, {})]
    /\ UNCHANGED <<cfg, policy, servers, run, result, edits>>

(* kanban card edit, acceptance and requeue, of a card without a claim.    *)
Edit(c) ==
    /\ edits < MaxEdits /\ edits' = edits + 1
    /\ Idle(c) /\ card[c].attempt = 0
    /\ \/ \E pin \in Pins : card' = [card EXCEPT ![c].pin = pin]
       \/ \E criteria \in SUBSET Criteria : card' = [card EXCEPT ![c].criteria = criteria]
       \/ \E stage \in {"planner", "worker"} : card' = [card EXCEPT ![c].stage = stage]
    /\ UNCHANGED <<cfg, policy, servers, run, result>>

(* The process ends between two executions and is started again.           *)
Restart ==
    /\ run = Nothing
    /\ cache' = {} /\ last' = [c \in Cards |-> [role \in Roles |-> Nothing]]
    /\ client' = "unloaded"
    /\ inbox' = {} /\ streamed' = FALSE
    /\ UNCHANGED <<cfg, card, run, result, edits>>

-----------------------------------------------------------------------------
Executor ==
    \/ \E c \in Cards : Start(c)
    \/ UsePin \/ SkipRouter \/ Recall \/ LoadClient \/ Route
    \/ InvokeSubagent \/ InvokeAcp \/ PromptReturns \/ PromptFails
    \/ ReplyText \/ ReplyNo \/ ReplyPlan \/ Submit

Next ==
    \/ Executor \/ Stream \/ Restart
    \/ \E c \in Cards : Commit(c) \/ Elsewhere(c) \/ Edit(c)

Spec == Init /\ [][Next]_vars

-----------------------------------------------------------------------------
TypeOK ==
    /\ cfg \in Configs /\ edits \in 0..MaxEdits
    /\ card \in [Cards -> [pin : Pins, criteria : SUBSET Criteria, rework : 0..ReworkBudget,
                           stage : Stages, attempt : 0..RetryBudget]]
    /\ cache \subseteq [key : Key, decision : Decision]
    /\ last \in [Cards -> [Roles -> Decision \cup {Nothing}]]
    /\ client \in Dirs \cup {"unloaded", "missing"}
    /\ inbox \subseteq Chunks /\ streamed \in BOOLEAN
    /\ inbox # {} => streamed \/ Running("prompt")
    /\ run \in Execution \cup {Nothing}
    /\ result \in [Cards -> Submission \cup {Nothing}]

(* The execution, under way or over and not yet submitted.                 *)
Executions == {run} \ {Nothing}

(* Every profile an execution runs on is one of its role, whatever the     *)
(* card pins, the router answers and the configuration falls back on.      *)
RightRole ==
    \A e \in Executions : \A i \in DOMAIN e.tries : cfg.role[e.tries[i].profile] = e.role

(* The router's decision an execution follows was made about the card the  *)
(* execution sees, its reworks included, although decisions are kept in    *)
(* each worker and only the scheduler's own executor is told of a rework.  *)
Fresh ==
    \A e \in Executions :
        e.decision # Nothing =>
            /\ e.decision.about.role = e.role
            /\ e.decision.about.seen = e.seen

(* What the executor returns names the router's prompt version exactly     *)
(* when the router had a say in this execution, never what it said in an   *)
(* earlier one.  (kanban run and tick record it; an envelope drops it.)    *)
Attributed ==
    \A e \in Executions :
        e.version = IF e.decision = Nothing THEN Nothing ELSE e.decision.about

(* What is parsed as the answer holds nothing that was in the inbox before *)
(* the prompt, after an earlier one's timeout say, nothing of another      *)
(* server, and another session's chunk only where no tag tells it apart:   *)
(* it came without one, or the server has not named the session.           *)
OwnWords ==
    \A e \in Executions :
        /\ {"left", "elsewhere"} \cap e.heard = {}
        /\ "tagged" \in e.heard => ~e.named

(* For a claim with a worktree the router, too, works in that worktree.    *)
RouterInPlace ==
    \A e \in Executions :
        e.dir \in Cards /\ e.routedIn \in Dirs => e.routedIn = e.dir

(* Before any backend is tried, an execution ends only for a pin that      *)
(* names no profile, which blocks the card, or because the router's        *)
(* specification cannot be read, which is retried.  Once there is a client *)
(* no answer of the router, nor its silence, ends one.                     *)
RouterHarmless ==
    \A e \in Executions :
        e.at = "over" /\ e.tries = <<>> =>
            \/ e.returned.kind = "blocked" /\ e.seen.pin \notin Profiles \cup {NoProfile}
            \/ e.returned.kind = "infra" /\ client = "unloaded"

(* At most two profiles are tried, the second for an infrastructure        *)
(* failure of the first only, and what the executor returns with an answer *)
(* names the profile the answer came from.                                 *)
FallbackJustified ==
    \A e \in Executions :
        /\ Len(e.tries) <= 2
        /\ Len(e.tries) = 2 => /\ e.tries[1].end = "infra"
                               /\ e.tries[2].profile = cfg.fallback[e.tries[1].profile]
        /\ e.at = "over" /\ e.returned.kind \in {"ok", "rework"} =>
               e.profile = e.tries[Len(e.tries)].profile

(* A criterion leaves a card only with a reason of the planner or by the   *)
(* hand of the operator: no replan, retry or late answer drops it.         *)
ContractKept ==
    [][ \A c \in Cards :
            LET dropped == card[c].criteria \ card'[c].criteria IN
            dropped # {} /\ edits' = edits =>
                result[c] # Nothing /\ dropped \subseteq result[c].reasons ]_vars
=============================================================================
