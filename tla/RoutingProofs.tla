--------------------------- MODULE RoutingProofs ----------------------------
(***************************************************************************)
(* Theorems about Routing, for any cards, criteria, profiles, accepted     *)
(* configurations and budgets: an execution follows a decision about the   *)
(* card it sees, runs on a profile of its role, falls back once and hears  *)
(* nothing from before its prompt, and no result drops a criterion without *)
(* a reason.                                                               *)
(***************************************************************************)
EXTENDS Routing, TLAPS

-----------------------------------------------------------------------------
(* What is true of an execution from its resolution to its end.            *)
Sound(conf, e) ==
    /\ \A i \in DOMAIN e.tries : conf.role[e.tries[i].profile] = e.role
    /\ e.decision # Nothing => e.decision.about.role = e.role /\ e.decision.about.seen = e.seen
    /\ e.version = IF e.decision = Nothing THEN Nothing ELSE e.decision.about
    /\ {"left", "elsewhere"} \cap e.heard = {} /\ ("tagged" \in e.heard => ~e.named)
    /\ e.dir \in Cards /\ e.routedIn \in Dirs => e.routedIn = e.dir

(* One fallback, after a failure of the infrastructure.                    *)
FellBackOnce(conf, e) ==
    /\ Len(e.tries) <= 2
    /\ Len(e.tries) = 2 => /\ e.tries[1].end = "infra"
                           /\ e.tries[2].profile = conf.fallback[e.tries[1].profile]

(* An answer is of the last profile that was tried.                        *)
Answered(e) == Len(e.tries) \in {1, 2} /\ e.profile = e.tries[Len(e.tries)].profile

(* A client that exists while a profile is resolved works in the           *)
(* directory of the execution.                                             *)
Resolving(e, now) ==
    e.at = "resolve" =>
        /\ e.tries = <<>>
        /\ e.dir \in Cards /\ now \in Dirs => now = e.dir

(* The profile about to be tried has the right role, and is the fallback   *)
(* if another one was tried before it.                                     *)
Invoking(conf, e) ==
    e.at \in {"invoke", "prompt"} =>
        /\ e.profile \in Profiles /\ conf.role[e.profile] = e.role
        /\ Len(e.tries) <= 1
        /\ Len(e.tries) = 1 => /\ e.tries[1].end = "infra"
                               /\ e.profile = conf.fallback[e.tries[1].profile]

(* Who has an answer has had it from a profile.                            *)
Replying(e) == e.at = "reply" => Answered(e)

(* A result fits the card it was produced for until it is committed.       *)
Submitted(k, r) ==
    /\ k.stage \in Roles
    /\ r.kind = "ok" /\ r.criteria # {} => k.criteria \ r.criteria \subseteq r.reasons

(* An execution that ends without a try was pinned to nothing, or has no   *)
(* router to ask.                                                          *)
Untried(e, kind, now) ==
    e.tries = <<>> => \/ kind = "blocked" /\ e.seen.pin \notin Profiles \cup {NoProfile}
                      \/ kind = "infra" /\ now = "unloaded"

(* What an execution returns.                                              *)
Returning(k, e, now) ==
    e.at = "over" =>
        /\ e.returned \in Submission
        /\ Submitted(k, e.returned) /\ Untried(e, e.returned.kind, now)
        /\ e.returned.kind \in {"ok", "rework"} => Answered(e)

(* Who executes a claim keeps its card from being edited and from being    *)
(* executed by others.                                                     *)
Underway(conf, k, e, now) ==
    /\ Sound(conf, e) /\ FellBackOnce(conf, e)
    /\ Resolving(e, now) /\ Invoking(conf, e) /\ Replying(e) /\ Returning(k, e, now)
    /\ k.stage \in Roles /\ k.criteria = e.seen.criteria

(* A decision is kept under the request it answers, and names a profile of *)
(* the role it was asked for.                                              *)
Keeps(conf, entry) ==
    LET about == entry.decision.about
    IN  /\ entry.key = [card |-> about.card, role |-> about.role, pin |-> about.seen.pin,
                        criteria |-> about.seen.criteria, rework |-> about.seen.rework]
        /\ entry.decision.choice # NoProfile => conf.role[entry.decision.choice] = about.role

(* The execution, the results and the cache, with the configuration and the*)
(* cards as they are.                                                      *)
RunFits ==
    run # Nothing => result[run.card] = Nothing /\ Underway(cfg, card[run.card], run, client)
ResultsFit == \A c \in Cards : result[c] # Nothing => Submitted(card[c], result[c])
CacheFits == \A entry \in cache : Keeps(cfg, entry)

(* A prompt begins with an empty inbox.                                    *)
Drained == Running("prompt") => "left" \notin inbox

(* The inductive invariant.                                                *)
RoutingInv == TypeOK /\ Loads(cfg) /\ RunFits /\ ResultsFit /\ CacheFits /\ Drained

-----------------------------------------------------------------------------
(* What load_config has checked: the default of a role and the fallback of *)
(* a profile are profiles of the same role.                                *)
LEMMA ConfigFits ==
    ASSUME cfg \in Configs, Loads(cfg)
    PROVE  /\ \A p \in Profiles : cfg.role[p] \in Roles
           /\ \A role \in Roles : /\ cfg.default[role] \in Profiles
                                  /\ cfg.role[cfg.default[role]] = role
           /\ \A p \in Profiles :
                  cfg.fallback[p] # NoProfile => /\ cfg.fallback[p] \in Profiles
                                                 /\ cfg.role[cfg.fallback[p]] = cfg.role[p]
  BY RoutingAssumption DEF RoutingAssumption, Config, Loads, DefaultsFit, FallbacksFit

(* A client is patched only when it exists, and then for one worktree.     *)
LEMMA PatchFits ==
    ASSUME client \in Dirs \cup {"unloaded", "missing"}, NEW dir \in Dirs
    PROVE  /\ Patch(dir).patched \in Dirs \cup {"unloaded", "missing"}
           /\ Patch(dir).saved \in Dirs \cup {Nothing}
           /\ dir \in Cards /\ Patch(dir).patched \in Dirs => Patch(dir).patched = dir
  BY DEF Patch, Dirs

(* What the type of an execution says of its parts.                        *)
LEMMA RunParts ==
    ASSUME RoutingInv, run # Nothing
    PROVE  /\ run \in Execution /\ run.card \in Cards /\ run.role \in Roles /\ run.seen \in Seen
           /\ run.dir \in Dirs
           /\ result[run.card] = Nothing /\ Underway(cfg, card[run.card], run, client)
  BY DEF RoutingInv, TypeOK, Execution, RunFits

(* What the executor returns is kept until it is submitted.                *)
LEMMA EndFits ==
    ASSUME RoutingInv, run # Nothing,
           NEW final \in Execution, NEW kind \in {"ok", "blocked", "rework", "infra"},
           NEW criteria \in SUBSET Criteria, NEW reasons \in SUBSET Criteria,
           NEW now \in Dirs \cup {"unloaded", "missing"},
           final.card = run.card, final.seen = run.seen,
           Sound(cfg, final), FellBackOnce(cfg, final), Untried(final, kind, now),
           kind = "ok" /\ criteria # {} => run.seen.criteria \ criteria \subseteq reasons,
           kind \in {"ok", "rework"} => Answered(final),
           End(final, kind, criteria, reasons, now),
           cfg' = cfg, card' = card, result' = result
    PROVE  /\ client' \in Dirs \cup {"unloaded", "missing"}
           /\ run' \in Execution \cup {Nothing}
           /\ result' \in [Cards -> Submission \cup {Nothing}]
           /\ RunFits' /\ ResultsFit' /\ ~Running("prompt")'
  <1> DEFINE r == [kind |-> kind, criteria |-> criteria, reasons |-> reasons]
  <1>1. r \in Submission /\ r.kind = kind /\ r.criteria = criteria /\ r.reasons = reasons
    BY DEF Submission
  <1>2. /\ Underway(cfg, card[run.card], run, client) /\ result[run.card] = Nothing
        /\ result \in [Cards -> Submission \cup {Nothing}]
    BY RunParts DEF RoutingInv, TypeOK
  <1>3. run' = [final EXCEPT !.at = "over", !.returned = r] /\ client' = now
    BY DEF End
  <1> HIDE DEF r
  <1>4. /\ run' \in Execution
        /\ run'.card = final.card /\ run'.role = final.role /\ run'.at = "over"
        /\ run'.seen = final.seen /\ run'.dir = final.dir /\ run'.profile = final.profile
        /\ run'.decision = final.decision /\ run'.version = final.version
        /\ run'.routedIn = final.routedIn /\ run'.tries = final.tries
        /\ run'.heard = final.heard /\ run'.named = final.named /\ run'.returned = r
    BY <1>1, <1>3 DEF Execution
  <1>5. Sound(cfg, run') /\ FellBackOnce(cfg, run')
    BY <1>4 DEF Sound, FellBackOnce
  <1>6. Submitted(card[run.card], r)
    BY <1>1, <1>2 DEF Submitted, Underway
  <1>7. Returning(card[run.card], run', client')
    <2>1. Untried(run', r.kind, client')
      BY <1>1, <1>3, <1>4 DEF Untried
    <2>2. r.kind \in {"ok", "rework"} => Answered(run')
      BY <1>1, <1>4 DEF Answered
    <2> QED
      BY <1>1, <1>4, <1>6, <2>1, <2>2 DEF Returning
  <1>8. Underway(cfg, card[run.card], run', client')
    BY <1>2, <1>4, <1>5, <1>7 DEF Underway, Resolving, Invoking, Replying
  <1>9. RunFits' /\ ResultsFit' /\ ~Running("prompt")'
    BY <1>2, <1>4, <1>8 DEF RunFits, ResultsFit, RoutingInv, Running
  <1> QED
    BY <1>2, <1>3, <1>4, <1>9

(* A resolved execution goes on with a profile of its role and with the    *)
(* decision, if any, that chose it.                                        *)
LEMMA UseFits ==
    ASSUME RoutingInv, Running("resolve"),
           NEW p \in Profiles, cfg.role[p] = run.role,
           NEW source \in {"card", "policy", "default"},
           NEW decision \in Decision \cup {Nothing}, NEW where \in Dirs \cup {Nothing},
           decision # Nothing => decision.about.role = run.role /\ decision.about.seen = run.seen,
           IF source = "card" THEN decision = Nothing ELSE last'[run.card][run.role] = decision,
           run.dir \in Cards /\ where \in Dirs => where = run.dir,
           Use(p, source, decision, where), cfg' = cfg, card' = card, result' = result
    PROVE  run' \in Execution \cup {Nothing} /\ RunFits' /\ ResultsFit' /\ ~Running("prompt")'
  <1>0. run # Nothing /\ run.at = "resolve"
    BY DEF Running
  <1>1. run \in Execution /\ Underway(cfg, card[run.card], run, client) /\ result[run.card] = Nothing
    BY <1>0, RunParts
  <1>2. PICK version \in About \cup {Nothing} :
            /\ version = IF decision = Nothing THEN Nothing ELSE decision.about
            /\ run' = [run EXCEPT !.at = "invoke", !.profile = p, !.source = source,
                                  !.decision = decision, !.routedIn = where,
                                  !.version = version]
    BY DEF Use, VersionOf, Decision
  <1>3. /\ run' \in Execution
        /\ run'.card = run.card /\ run'.role = run.role /\ run'.at = "invoke"
        /\ run'.seen = run.seen /\ run'.dir = run.dir /\ run'.profile = p
        /\ run'.decision = decision /\ run'.version = version /\ run'.routedIn = where
        /\ run'.tries = run.tries /\ run'.heard = run.heard /\ run'.named = run.named
    <2>1. run' = [card |-> run.card, role |-> run.role, at |-> "invoke", seen |-> run.seen,
                  dir |-> run.dir, saved |-> run.saved, profile |-> p, source |-> source,
                  decision |-> decision, version |-> version, routedIn |-> where,
                  tries |-> run.tries, heard |-> run.heard, named |-> run.named,
                  returned |-> run.returned]
      BY <1>1, <1>2 DEF Execution
    <2> QED
      BY <1>1, <2>1 DEF Execution
  <1>4. run.tries = <<>>
    BY <1>0, <1>1 DEF Underway, Resolving
  <1>5. Underway(cfg, card[run.card], run', client')
    <2>1. Sound(cfg, run')
      BY <1>1, <1>2, <1>3, <1>4 DEF Underway, Sound
    <2> QED
      BY <1>1, <1>3, <1>4, <2>1
      DEF Underway, FellBackOnce, Resolving, Invoking, Replying, Returning
  <1>6. RunFits'
    BY <1>1, <1>3, <1>5 DEF RunFits
  <1>7. ResultsFit' /\ ~Running("prompt")'
    BY <1>3 DEF ResultsFit, RoutingInv, Running
  <1> QED
    BY <1>3, <1>6, <1>7

(* So does one that the router, its memory or its absence has decided: no  *)
(* answer about a profile of the role blocks the card.                     *)
LEMMA DecideFits ==
    ASSUME RoutingInv, Running("resolve"),
           NEW decision \in Decision \cup {Nothing}, NEW where \in Dirs \cup {Nothing},
           decision # Nothing =>
               /\ decision.about.role = run.role /\ decision.about.seen = run.seen
               /\ decision.choice # NoProfile => cfg.role[decision.choice] = run.role,
           run.dir \in Cards /\ where \in Dirs => where = run.dir,
           Decide(decision, client, where), cfg' = cfg, card' = card, result' = result
    PROVE  /\ client' \in Dirs \cup {"unloaded", "missing"}
           /\ last' \in [Cards -> [Roles -> Decision \cup {Nothing}]]
           /\ run' \in Execution \cup {Nothing} /\ result' \in [Cards -> Submission \cup {Nothing}]
           /\ RunFits' /\ ResultsFit' /\ ~Running("prompt")'
  <1>0. run # Nothing /\ run.card \in Cards /\ run.role \in Roles
    BY RunParts DEF Running
  <1>1. /\ client \in Dirs \cup {"unloaded", "missing"}
        /\ last \in [Cards -> [Roles -> Decision \cup {Nothing}]]
        /\ result \in [Cards -> Submission \cup {Nothing}]
        /\ cfg \in Configs /\ Loads(cfg)
    BY DEF RoutingInv, TypeOK
  <1>2. last' = [last EXCEPT ![run.card][run.role] = decision]
    BY DEF Decide
  <1>3. /\ last' \in [Cards -> [Roles -> Decision \cup {Nothing}]]
        /\ last'[run.card][run.role] = decision
    BY <1>0, <1>1, <1>2
  <1>4. CASE decision = Nothing \/ decision.choice = NoProfile
    <2>1. /\ Use(cfg.default[run.role], "default", decision, where)
          /\ client' = client
      BY <1>4 DEF Decide
    <2>2. cfg.default[run.role] \in Profiles /\ cfg.role[cfg.default[run.role]] = run.role
      BY <1>0, <1>1, ConfigFits
    <2>3. run' \in Execution \cup {Nothing} /\ RunFits' /\ ResultsFit' /\ ~Running("prompt")'
      BY <1>3, <2>1, <2>2, UseFits
    <2> QED
      BY <1>1, <1>3, <2>1, <2>3
  <1>5. CASE ~(decision = Nothing \/ decision.choice = NoProfile)
    <2>1. decision.choice \in Profiles /\ cfg.role[decision.choice] = run.role
      BY <1>5 DEF Decision
    <2>2. /\ Use(decision.choice, "policy", decision, where)
          /\ client' = client
      BY <1>5, <2>1 DEF Decide
    <2>3. run' \in Execution \cup {Nothing} /\ RunFits' /\ ResultsFit' /\ ~Running("prompt")'
      BY <1>3, <2>1, <2>2, UseFits
    <2> QED
      BY <1>1, <1>3, <2>2, <2>3
  <1> QED
    BY <1>4, <1>5

-----------------------------------------------------------------------------
(* One more profile is tried: it is the first, or the fallback of a first  *)
(* that failed on its infrastructure, and one of the role either way.      *)
LEMMA TriedFits ==
    ASSUME RoutingInv, run # Nothing, run.at \in {"invoke", "prompt"},
           NEW end \in {"text", "infra", "config"}
    PROVE  /\ run.profile \in Profiles
           /\ Tried(end) \in Seq([profile : Profiles, end : {"text", "infra", "config"}])
           /\ Len(run.tries) \in {0, 1} /\ Len(Tried(end)) \in {1, 2}
           /\ Tried(end)[Len(Tried(end))].profile = run.profile
           /\ Len(run.tries) = 0 => Len(Tried(end)) = 1 /\ Tried(end)[1].end = end
           /\ \A i \in DOMAIN Tried(end) : cfg.role[Tried(end)[i].profile] = run.role
           /\ Len(Tried(end)) = 2 =>
                  /\ Tried(end)[1].end = "infra"
                  /\ Tried(end)[2].profile = cfg.fallback[Tried(end)[1].profile]
  <1>1. run \in Execution /\ Underway(cfg, card[run.card], run, client)
    BY RunParts
  <1>2. /\ run.profile \in Profiles /\ cfg.role[run.profile] = run.role
        /\ Len(run.tries) <= 1
        /\ Len(run.tries) = 1 => /\ run.tries[1].end = "infra"
                                 /\ run.profile = cfg.fallback[run.tries[1].profile]
        /\ \A i \in DOMAIN run.tries : cfg.role[run.tries[i].profile] = run.role
    BY <1>1 DEF Underway, Invoking, Sound
  <1> DEFINE try == [profile |-> run.profile, end |-> end]
             Tries == [profile : Profiles, end : {"text", "infra", "config"}]
  <1>3. try \in Tries /\ try.profile = run.profile /\ try.end = end
    BY <1>2
  <1>4. run.tries \in Seq(Tries)
    BY <1>1 DEF Execution
  <1>5. Tried(end) = Append(run.tries, try)
    BY DEF Tried
  <1> HIDE DEF try, Tries
  <1>6. /\ Tried(end) \in Seq(Tries) /\ Len(run.tries) \in Nat
        /\ Len(Tried(end)) = Len(run.tries) + 1
        /\ DOMAIN Tried(end) = 1..Len(run.tries) + 1
        /\ DOMAIN run.tries = 1..Len(run.tries)
        /\ Tried(end)[Len(run.tries) + 1] = try
        /\ \A i \in 1..Len(run.tries) : Tried(end)[i] = run.tries[i]
    BY <1>3, <1>4, <1>5
  <1>l. Len(run.tries) <= 1
    BY <1>2
  <1>7. /\ Len(run.tries) \in {0, 1} /\ Len(Tried(end)) = Len(run.tries) + 1
        /\ Len(Tried(end)) \in {1, 2}
    <2> DEFINE n == Len(run.tries)
    <2>1. n \in Nat /\ n <= 1 /\ Len(Tried(end)) = n + 1
      BY <1>6, <1>l
    <2> HIDE DEF n
    <2>2. n \in {0, 1} /\ Len(Tried(end)) = n + 1 /\ Len(Tried(end)) \in {1, 2}
      BY <2>1
    <2> QED
      BY <2>2 DEF n
  <1>8. \A i \in DOMAIN Tried(end) : cfg.role[Tried(end)[i].profile] = run.role
    BY <1>2, <1>3, <1>6
  <1>9. Len(Tried(end)) = 2 => /\ Tried(end)[1].end = "infra"
                               /\ Tried(end)[2].profile = cfg.fallback[Tried(end)[1].profile]
    <2>1. CASE Len(run.tries) = 0
      BY <1>7, <2>1
    <2>2. CASE Len(run.tries) = 1
      <3>1. Tried(end)[1] = run.tries[1] /\ Tried(end)[2] = try
        BY <1>6, <2>2
      <3> QED
        BY <1>2, <1>3, <2>2, <3>1
    <2> QED
      BY <1>7, <2>1, <2>2
  <1>10. Tried(end)[Len(Tried(end))].profile = run.profile
    BY <1>3, <1>6, <1>7
  <1>11. Len(run.tries) = 0 => Len(Tried(end)) = 1 /\ Tried(end)[1].end = end
    BY <1>3, <1>6, <1>7
  <1> QED
    BY <1>2, <1>6, <1>7, <1>8, <1>9, <1>10, <1>11 DEF Tries

(* A backend that returned text: the reply is read next.                   *)
LEMMA HeardFits ==
    ASSUME RoutingInv, run # Nothing, run.at \in {"invoke", "prompt"},
           NEW named \in BOOLEAN,
           NEW chunks \in SUBSET ({"own", "untagged"} \cup (IF named THEN {} ELSE {"tagged"})),
           Heard(chunks, named), cfg' = cfg, card' = card, result' = result
    PROVE  run' \in Execution \cup {Nothing} /\ RunFits' /\ ResultsFit' /\ ~Running("prompt")'
  <1>1. /\ run \in Execution /\ Underway(cfg, card[run.card], run, client)
        /\ result[run.card] = Nothing
    BY RunParts
  <1> DEFINE tries == Tried("text")
  <1>2. run' = [run EXCEPT !.at = "reply", !.tries = tries, !.heard = chunks, !.named = named]
    BY DEF Heard
  <1>c. /\ chunks \subseteq Chunks /\ {"left", "elsewhere"} \cap chunks = {}
        /\ "tagged" \in chunks => ~named
    BY DEF Chunks
  <1>3. /\ tries \in Seq([profile : Profiles, end : {"text", "infra", "config"}])
        /\ Len(tries) \in {1, 2} /\ tries[Len(tries)].profile = run.profile
        /\ \A i \in DOMAIN tries : cfg.role[tries[i].profile] = run.role
        /\ Len(tries) = 2 => /\ tries[1].end = "infra"
                             /\ tries[2].profile = cfg.fallback[tries[1].profile]
    BY TriedFits
  <1> HIDE DEF tries
  <1>4. /\ run'.card = run.card /\ run'.role = run.role /\ run'.at = "reply"
        /\ run'.seen = run.seen /\ run'.dir = run.dir /\ run'.profile = run.profile
        /\ run'.decision = run.decision /\ run'.version = run.version
        /\ run'.routedIn = run.routedIn /\ run'.tries = tries /\ run'.heard = chunks
        /\ run'.named = named
    BY <1>1, <1>2 DEF Execution
  <1>5. run' \in Execution
    BY <1>1, <1>2, <1>3, <1>c DEF Execution
  <1>6. Underway(cfg, card[run.card], run', client')
    <2>1. Sound(cfg, run')
      BY <1>1, <1>3, <1>4, <1>c DEF Underway, Sound
    <2> QED
      BY <1>1, <1>3, <1>4, <2>1
      DEF Underway, FellBackOnce, Resolving, Invoking, Replying, Returning, Answered
  <1>7. RunFits' /\ ~Running("prompt")'
    BY <1>1, <1>4, <1>6 DEF RunFits, Running
  <1>8. ResultsFit'
    BY DEF ResultsFit, RoutingInv
  <1> QED
    BY <1>5, <1>7, <1>8

(* A backend that failed: one fallback, or the end of the execution.       *)
LEMMA FailedFits ==
    ASSUME RoutingInv, run # Nothing, run.at \in {"invoke", "prompt"},
           NEW end \in {"infra", "config"}, Failed(end),
           cfg' = cfg, card' = card, result' = result
    PROVE  /\ client' \in Dirs \cup {"unloaded", "missing"}
           /\ run' \in Execution \cup {Nothing} /\ result' \in [Cards -> Submission \cup {Nothing}]
           /\ RunFits' /\ ResultsFit' /\ ~Running("prompt")'
  <1>1. /\ run \in Execution /\ Underway(cfg, card[run.card], run, client)
        /\ result[run.card] = Nothing
    BY RunParts
  <1>2. /\ client \in Dirs \cup {"unloaded", "missing"}
        /\ result \in [Cards -> Submission \cup {Nothing}]
        /\ cfg \in Configs /\ Loads(cfg)
    BY DEF RoutingInv, TypeOK
  <1> DEFINE tries == Tried(end)
  <1>3. /\ tries \in Seq([profile : Profiles, end : {"text", "infra", "config"}])
        /\ Len(run.tries) \in {0, 1} /\ Len(tries) \in {1, 2}
        /\ tries[Len(tries)].profile = run.profile
        /\ Len(run.tries) = 0 => Len(tries) = 1 /\ tries[1].end = end
        /\ run.profile \in Profiles
        /\ \A i \in DOMAIN tries : cfg.role[tries[i].profile] = run.role
        /\ Len(tries) = 2 => /\ tries[1].end = "infra"
                             /\ tries[2].profile = cfg.fallback[tries[1].profile]
    BY TriedFits
  <1>4. CASE FallBack(end)
    <2> DEFINE p == cfg.fallback[run.profile]
    <2>1. run' = [run EXCEPT !.at = "invoke", !.tries = tries, !.profile = p]
          /\ client' = client
      BY <1>4 DEF Failed
    <2>2. p \in Profiles /\ cfg.role[p] = run.role /\ Len(tries) = 1 /\ tries[1].end = "infra"
      BY <1>2, <1>3, <1>4, ConfigFits, <1>1 DEF FallBack, Underway, Invoking
    <2>3. p = cfg.fallback[tries[1].profile]
      BY <1>3, <2>2
    <2> HIDE DEF p, tries
    <2>4. /\ run'.card = run.card /\ run'.role = run.role /\ run'.at = "invoke"
          /\ run'.seen = run.seen /\ run'.dir = run.dir /\ run'.profile = p
          /\ run'.decision = run.decision /\ run'.version = run.version
          /\ run'.routedIn = run.routedIn /\ run'.tries = tries /\ run'.heard = run.heard
          /\ run'.named = run.named
      BY <1>1, <2>1 DEF Execution
    <2>5. run' \in Execution
      BY <1>1, <1>3, <2>1, <2>2 DEF Execution
    <2>6. Underway(cfg, card[run.card], run', client')
      <3>1. Sound(cfg, run')
        BY <1>1, <1>3, <2>4 DEF Underway, Sound
      <3>n. Len(run'.tries) = 1
        BY <2>2, <2>4
      <3>m. Len(run'.tries) <= 1 /\ Len(run'.tries) <= 2 /\ Len(run'.tries) # 2
        BY <3>n
      <3>2. Invoking(cfg, run')
        BY <2>2, <2>3, <2>4, <3>m DEF Invoking
      <3>3. FellBackOnce(cfg, run')
        BY <3>m DEF FellBackOnce
      <3>4. Resolving(run', client') /\ Replying(run') /\ Returning(card[run.card], run', client')
        BY <2>4 DEF Resolving, Replying, Returning
      <3> QED
        BY <1>1, <2>4, <3>1, <3>2, <3>3, <3>4 DEF Underway
    <2>7. RunFits' /\ ResultsFit' /\ ~Running("prompt")'
      BY <1>1, <2>1, <2>4, <2>6 DEF RunFits, ResultsFit, RoutingInv, Running
    <2> QED
      BY <1>2, <2>1, <2>5, <2>7
  <1>5. CASE ~FallBack(end)
    <2> DEFINE final == [run EXCEPT !.tries = tries]
               kind == IF end = "infra" THEN "infra" ELSE "blocked"
    <2>1. End(final, kind, {}, {}, client)
      BY <1>5 DEF Failed
    <2> HIDE DEF tries
    <2>2. /\ final \in Execution
          /\ final.role = run.role /\ final.dir = run.dir /\ final.decision = run.decision
          /\ final.version = run.version /\ final.routedIn = run.routedIn
          /\ final.tries = tries /\ final.heard = run.heard /\ final.named = run.named
          /\ final.seen = run.seen /\ final.card = run.card
      BY <1>1, <1>3 DEF Execution
    <2>3. Sound(cfg, final) /\ FellBackOnce(cfg, final)
      BY <1>1, <1>3, <2>2 DEF Underway, Sound, FellBackOnce
    <2>4. tries # <<>> /\ kind \in {"blocked", "infra"}
      BY <1>3
    <2> HIDE DEF final, kind
    <2>5. Untried(final, kind, client)
      BY <2>2, <2>4 DEF Untried
    <2>6. /\ final \in Execution /\ kind \in {"ok", "blocked", "rework", "infra"}
          /\ {} \in SUBSET Criteria
      BY <2>2, <2>4
    <2> QED
      BY <1>2, <2>1, <2>2, <2>3, <2>4, <2>5, <2>6, EndFits
  <1> QED
    BY <1>4, <1>5

-----------------------------------------------------------------------------
(* An answer is returned with what was tried; a planner's new list gives   *)
(* a reason for every criterion it drops.                                  *)
LEMMA ReplyFits ==
    ASSUME RoutingInv, NEW kind \in {"ok", "blocked", "rework", "infra"},
           NEW criteria \in SUBSET Criteria, NEW reasons \in SUBSET Criteria,
           kind = "ok" /\ criteria # {} => run.seen.criteria \ criteria \subseteq reasons,
           Reply(kind, criteria, reasons)
    PROVE  /\ client' \in Dirs \cup {"unloaded", "missing"}
           /\ run' \in Execution \cup {Nothing} /\ result' \in [Cards -> Submission \cup {Nothing}]
           /\ RunFits' /\ ResultsFit' /\ ~Running("prompt")'
  <1>1. run # Nothing /\ run.at = "reply" /\ End(run, kind, criteria, reasons, client)
        /\ cfg' = cfg /\ card' = card /\ result' = result
    BY DEF Reply, Running
  <1>2. run \in Execution /\ Underway(cfg, card[run.card], run, client)
    BY <1>1, RunParts
  <1>3. client \in Dirs \cup {"unloaded", "missing"}
    BY DEF RoutingInv, TypeOK
  <1>4. Answered(run) /\ run.tries # <<>>
    <2>1. Answered(run)
      BY <1>1, <1>2 DEF Underway, Replying
    <2>2. Len(run.tries) \in {1, 2}
      BY <2>1 DEF Answered
    <2>3. run.tries # <<>>
      BY <2>2
    <2> QED
      BY <2>1, <2>3
  <1>5. Sound(cfg, run) /\ FellBackOnce(cfg, run) /\ Untried(run, kind, client)
    BY <1>2, <1>4 DEF Untried, Underway
  <1> QED
    BY <1>1, <1>2, <1>3, <1>4, <1>5, EndFits

(* The cards as the process sees them.                                     *)
CardFile == [pin : Pins, criteria : SUBSET Criteria, rework : 0..ReworkBudget,
             stage : Stages, attempt : 0..RetryBudget]

(* A committed result moves the card on within its budgets, and only an    *)
(* accepted answer with a new list replaces the criteria.                  *)
LEMMA AppliedFits ==
    ASSUME NEW k \in CardFile, k.stage \in Roles, NEW kind, NEW criteria \in SUBSET Criteria
    PROVE  /\ Applied(k, kind, criteria) \in CardFile
           /\ \/ Applied(k, kind, criteria).criteria = k.criteria
              \/ /\ kind = "ok" /\ criteria # {}
                 /\ Applied(k, kind, criteria).criteria = criteria
  <1>b. /\ RetryBudget \in Nat /\ ReworkBudget \in Nat /\ 0 \in 0..RetryBudget
        /\ k.pin \in Pins /\ k.criteria \in SUBSET Criteria /\ k.rework \in 0..ReworkBudget
        /\ k.stage \in Stages /\ k.attempt \in 0..RetryBudget
        /\ {"worker", "over"} \subseteq Stages
    BY RoutingAssumption DEF RoutingAssumption, CardFile, Roles, Stages
  <1>1. CASE kind = "ok"
    <2>1. Applied(k, kind, criteria) =
              [k EXCEPT !.stage = After[k.stage], !.attempt = 0,
                        !.criteria = IF criteria = {} THEN @ ELSE criteria]
      BY <1>1 DEF Applied
    <2>2. After[k.stage] \in Stages
      BY DEF After, Roles, Stages
    <2>3. Applied(k, kind, criteria) =
              [pin |-> k.pin, criteria |-> IF criteria = {} THEN k.criteria ELSE criteria,
               rework |-> k.rework, stage |-> After[k.stage], attempt |-> 0]
      BY <2>1 DEF CardFile
    <2> QED
      BY <1>1, <1>b, <2>2, <2>3 DEF CardFile
  <1>2. CASE kind = "rework" /\ k.rework < ReworkBudget
    <2>1. Applied(k, kind, criteria) =
              [k EXCEPT !.stage = "worker", !.attempt = 0, !.rework = @ + 1]
      BY <1>2 DEF Applied
    <2>2. k.rework + 1 \in 0..ReworkBudget
      BY <1>2, <1>b
    <2>3. Applied(k, kind, criteria) =
              [pin |-> k.pin, criteria |-> k.criteria, rework |-> k.rework + 1,
               stage |-> "worker", attempt |-> 0]
      BY <2>1 DEF CardFile
    <2> QED
      BY <1>b, <2>2, <2>3 DEF CardFile
  <1>3. CASE kind = "infra" /\ MayRetry(k)
    <2>1. Applied(k, kind, criteria) = [k EXCEPT !.attempt = @ + 1]
      BY <1>3 DEF Applied
    <2>2. k.attempt + 1 \in 0..RetryBudget
      BY <1>3, <1>b DEF CardFile, MayRetry
    <2> QED
      BY <2>1, <2>2 DEF CardFile
  <1>4. CASE ~(\/ kind = "ok"
               \/ kind = "rework" /\ k.rework < ReworkBudget
               \/ kind = "infra" /\ MayRetry(k))
    <2>1. Applied(k, kind, criteria) = [k EXCEPT !.stage = "over", !.attempt = 0]
      BY <1>4 DEF Applied
    <2>3. Applied(k, kind, criteria) =
              [pin |-> k.pin, criteria |-> k.criteria, rework |-> k.rework,
               stage |-> "over", attempt |-> 0]
      BY <2>1 DEF CardFile
    <2> QED
      BY <1>b, <2>3 DEF CardFile
  <1> QED
    BY <1>1, <1>2, <1>3, <1>4

-----------------------------------------------------------------------------
(* The parts of the invariant a step of the executor, of the servers, of   *)
(* the scheduler or of the operator may disturb.                           *)
Preserved == RunFits' /\ ResultsFit' /\ CacheFits' /\ Drained'

(* An execution begins with the card as it is and a patched client.        *)
LEMMA StartFits ==
    ASSUME RoutingInv, NEW c \in Cards, Start(c)
    PROVE  TypeOK' /\ Preserved
  <1> USE DEF RoutingInv
  <1>1. /\ card[c] \in CardFile /\ card[c].stage \in Roles /\ result[c] = Nothing
        /\ client \in Dirs \cup {"unloaded", "missing"}
    BY DEF Start, TypeOK, CardFile
  <1> DEFINE dir == DirOf(c, card[c].stage)
             seen == [pin |-> card[c].pin, criteria |-> card[c].criteria,
                      rework |-> card[c].rework]
  <1>2. dir \in Dirs /\ seen \in Seen
    BY <1>1 DEF DirOf, Dirs, Seen, CardFile
  <1>3. /\ client' = Patch(dir).patched
        /\ run' = [card |-> c, role |-> card[c].stage, at |-> "resolve", seen |-> seen,
                   dir |-> dir, saved |-> Patch(dir).saved,
                   profile |-> NoProfile, source |-> "none", decision |-> Nothing,
                   version |-> Nothing, routedIn |-> Nothing, tries |-> <<>>, heard |-> {},
                   named |-> TRUE, returned |-> Nothing]
        /\ UNCHANGED <<cfg, card, cache, last, servers, result, edits>>
        /\ run = Nothing
    BY DEF Start
  <1>4. /\ client' \in Dirs \cup {"unloaded", "missing"}
        /\ Patch(dir).saved \in Dirs \cup {Nothing}
        /\ dir \in Cards /\ client' \in Dirs => client' = dir
    BY <1>1, <1>2, <1>3, PatchFits
  <1> HIDE DEF dir, seen
  <1>5. run' \in Execution
    BY <1>1, <1>2, <1>3, <1>4 DEF Execution
  <1>6. inbox' # {} => streamed'
    BY <1>3 DEF servers, TypeOK, Running
  <1>7. TypeOK'
    BY <1>3, <1>4, <1>5, <1>6 DEF TypeOK, servers
  <1>8. Underway(cfg, card[c], run', client')
    <2>1. Sound(cfg, run')
      BY <1>3, NothingAssumption DEF Sound, NothingAssumption
    <2>2. FellBackOnce(cfg, run')
      BY <1>3 DEF FellBackOnce
    <2>3. /\ Resolving(run', client') /\ Invoking(cfg, run') /\ Replying(run')
          /\ Returning(card[c], run', client')
      BY <1>3, <1>4 DEF Resolving, Invoking, Replying, Returning
    <2> QED
      BY <1>1, <1>3, <2>1, <2>2, <2>3 DEF Underway, seen
  <1>9. run'.card = c /\ run'.at = "resolve"
    BY <1>3
  <1>10. RunFits' /\ ResultsFit' /\ CacheFits' /\ Drained'
    BY <1>1, <1>3, <1>8, <1>9 DEF RunFits, ResultsFit, CacheFits, Drained, Running
  <1> QED
    BY <1>7, <1>10 DEF Preserved

(* A pinned card is not routed; a pin that names no profile blocks it.     *)
LEMMA PinFits ==
    ASSUME RoutingInv, UsePin PROVE TypeOK' /\ Preserved
  <1>1. run # Nothing /\ run.at = "resolve" /\ Running("resolve") /\ run.seen.pin # NoProfile
        /\ UNCHANGED <<cfg, card, servers, result, edits>> /\ cache' = cache /\ last' = last
    BY DEF UsePin, Running, policy
  <1>2. run \in Execution /\ Underway(cfg, card[run.card], run, client)
    BY <1>1, RunParts
  <1>3. /\ client' \in Dirs \cup {"unloaded", "missing"}
        /\ run' \in Execution \cup {Nothing} /\ result' \in [Cards -> Submission \cup {Nothing}]
        /\ RunFits' /\ ResultsFit' /\ ~Running("prompt")'
    <2>1. CASE Pinned /\ UNCHANGED policy /\ Use(run.seen.pin, "card", Nothing, Nothing)
      <3>1. run' \in Execution \cup {Nothing} /\ RunFits' /\ ResultsFit' /\ ~Running("prompt")'
        BY <1>1, <2>1, UseFits, NothingAssumption DEF Pinned, NothingAssumption
      <3> QED
        BY <1>1, <2>1, <3>1 DEF RoutingInv, TypeOK, policy
    <2>2. CASE run.seen.pin \notin Profiles /\ End(run, "blocked", {}, {}, client)
      <3>1. Sound(cfg, run) /\ FellBackOnce(cfg, run) /\ Untried(run, "blocked", client)
        BY <1>1, <1>2, <2>2 DEF Untried, Underway
      <3>2. client \in Dirs \cup {"unloaded", "missing"}
        BY DEF RoutingInv, TypeOK
      <3> QED
        BY <1>1, <1>2, <2>2, <3>1, <3>2, EndFits
    <2> QED
      BY <2>1, <2>2 DEF UsePin
  <1>4. inbox' # {} => streamed'
    BY <1>1 DEF RoutingInv, TypeOK, Running, servers
  <1>5. TypeOK'
    BY <1>1, <1>3, <1>4 DEF RoutingInv, TypeOK, servers
  <1> QED
    BY <1>1, <1>3, <1>5 DEF Preserved, RoutingInv, CacheFits, Drained

(* What the router answers, remembers or leaves unanswered is about the    *)
(* execution that asks.                                                    *)
LEMMA RouterFits ==
    ASSUME RoutingInv, SkipRouter \/ Recall \/ LoadClient \/ Route PROVE TypeOK' /\ Preserved
  <1>1. /\ run # Nothing /\ run.at = "resolve" /\ Running("resolve")
        /\ UNCHANGED <<cfg, card, servers, result, edits>>
    BY DEF SkipRouter, Recall, LoadClient, Route, AskPolicy, Running
  <1>2. /\ run \in Execution /\ Underway(cfg, card[run.card], run, client)
        /\ run.card \in Cards /\ run.role \in Roles /\ run.seen \in Seen /\ run.dir \in Dirs
        /\ result[run.card] = Nothing
    BY <1>1, RunParts
  <1>3. /\ client \in Dirs \cup {"unloaded", "missing"}
        /\ last \in [Cards -> [Roles -> Decision \cup {Nothing}]]
        /\ cache \subseteq [key : Key, decision : Decision] /\ CacheFits /\ cfg \in Configs
    BY DEF RoutingInv, TypeOK
  <1> DEFINE Good ==
                 /\ client' \in Dirs \cup {"unloaded", "missing"}
                 /\ last' \in [Cards -> [Roles -> Decision \cup {Nothing}]]
                 /\ run' \in Execution \cup {Nothing}
                 /\ result' \in [Cards -> Submission \cup {Nothing}]
                 /\ cache' \subseteq [key : Key, decision : Decision]
                 /\ RunFits' /\ ResultsFit' /\ CacheFits' /\ ~Running("prompt")'
  <1>c. ASSUME cache' = cache PROVE cache' \subseteq [key : Key, decision : Decision] /\ CacheFits'
    BY <1>1, <1>3, <1>c DEF CacheFits
  <1>4. ASSUME SkipRouter PROVE Good
    <2>1. Decide(Nothing, client, Nothing) /\ cache' = cache
      BY <1>4 DEF SkipRouter
    <2> QED
      BY <1>1, <1>c, <2>1, DecideFits, NothingAssumption DEF NothingAssumption
  <1>5. ASSUME Recall PROVE Good
    <2>1. PICK entry \in cache : entry.key = Request /\ Decide(entry.decision, client, Nothing)
      BY <1>5 DEF Recall, Kept
    <2> DEFINE about == entry.decision.about
    <2>2. /\ entry.decision \in Decision /\ about \in About /\ about.seen \in Seen
          /\ Keeps(cfg, entry)
      BY <1>3, <2>1 DEF CacheFits, Decision, About
    <2>3. /\ about.role = run.role /\ about.seen.pin = run.seen.pin
          /\ about.seen.criteria = run.seen.criteria /\ about.seen.rework = run.seen.rework
      BY <2>1, <2>2 DEF Keeps, Request
    <2>4. about.seen = run.seen
      BY <1>2, <2>2, <2>3 DEF Seen
    <2>5. entry.decision.choice # NoProfile => cfg.role[entry.decision.choice] = run.role
      BY <2>2, <2>3 DEF Keeps
    <2>6. cache' = cache
      BY <1>5 DEF Recall
    <2> HIDE DEF about
    <2>7. entry.decision.about.role = run.role /\ entry.decision.about.seen = run.seen
      BY <2>3, <2>4 DEF about
    <2> QED
      BY <1>1, <1>c, <2>1, <2>2, <2>5, <2>6, <2>7, DecideFits, NothingAssumption
      DEF NothingAssumption
  <1>6. ASSUME LoadClient PROVE Good
    <2>1. cache' = cache /\ last' = last
      BY <1>6 DEF LoadClient
    <2>2. CASE client' \in {run.dir, "missing"} /\ UNCHANGED run
      <3>1. Underway(cfg, card[run.card], run, client')
        BY <1>1, <1>2, <2>2, NothingAssumption DEF Underway, Resolving, Returning, NothingAssumption
      <3>2. RunFits' /\ ResultsFit' /\ ~Running("prompt")'
        BY <1>1, <1>2, <2>2, <3>1 DEF RunFits, ResultsFit, RoutingInv, Running
      <3> QED
        BY <1>1, <1>2, <1>3, <1>c, <2>1, <2>2, <3>2 DEF RoutingInv, TypeOK
    <2>3. CASE End(run, "infra", {}, {}, client)
      <3>1. Sound(cfg, run) /\ FellBackOnce(cfg, run) /\ Untried(run, "infra", client)
        BY <1>2, <1>6 DEF Untried, Underway, LoadClient
      <3> QED
        BY <1>1, <1>2, <1>3, <1>c, <2>1, <2>3, <3>1, EndFits
    <2> QED
      BY <1>6, <2>2, <2>3 DEF LoadClient
  <1>7. ASSUME Route PROVE Good
    <2>1. PICK answer \in Answers :
              LET decision == [choice |-> answer[1], outage |-> answer[2],
                               about |-> [card |-> run.card, role |-> run.role, seen |-> run.seen]]
              IN  /\ Decide(decision, client, client)
                  /\ cache' = IF decision.outage THEN cache
                              ELSE cache \cup {[key |-> Request, decision |-> decision]}
      BY <1>7 DEF Route
    <2>2. /\ answer[1] \in Profiles \cup {NoProfile} /\ answer[2] \in BOOLEAN
          /\ answer[1] # NoProfile => cfg.role[answer[1]] = run.role
      BY DEF Answers, Candidates
    <2> DEFINE about == [card |-> run.card, role |-> run.role, seen |-> run.seen]
               decision == [choice |-> answer[1], outage |-> answer[2], about |-> about]
               entry == [key |-> Request, decision |-> decision]
    <2>3. about \in About /\ about.role = run.role /\ about.seen = run.seen /\ about.card = run.card
      BY <1>2 DEF About
    <2>4. Decide(decision, client, client) /\ cache' \subseteq cache \cup {entry}
      BY <2>1
    <2> HIDE DEF about
    <2>5. decision \in Decision /\ decision.about = about /\ decision.choice = answer[1]
      BY <2>2, <2>3 DEF Decision
    <2> HIDE DEF decision
    <2>6. Request \in Key
      BY <1>2 DEF Request, Key, Seen
    <2>7. Keeps(cfg, entry)
      BY <2>2, <2>3, <2>5 DEF Keeps, Request
    <2>8. entry \in [key : Key, decision : Decision]
      BY <2>5, <2>6
    <2> HIDE DEF entry
    <2>9. cache' \subseteq [key : Key, decision : Decision] /\ CacheFits'
      BY <1>1, <1>3, <2>4, <2>7, <2>8 DEF CacheFits
    <2>10. client \in Dirs /\ (run.dir \in Cards => client = run.dir)
      BY <1>1, <1>2, <1>7 DEF Route, Underway, Resolving
    <2>11. /\ client' \in Dirs \cup {"unloaded", "missing"}
           /\ last' \in [Cards -> [Roles -> Decision \cup {Nothing}]]
           /\ run' \in Execution \cup {Nothing}
           /\ result' \in [Cards -> Submission \cup {Nothing}]
           /\ RunFits' /\ ResultsFit' /\ ~Running("prompt")'
      BY <1>1, <2>2, <2>3, <2>4, <2>5, <2>10, DecideFits
    <2> QED
      BY <2>9, <2>11
  <1>8. Good
    BY <1>4, <1>5, <1>6, <1>7
  <1>9. inbox' # {} => streamed'
    BY <1>1 DEF RoutingInv, TypeOK, Running, servers
  <1>10. TypeOK'
    BY <1>1, <1>8, <1>9 DEF RoutingInv, TypeOK, servers
  <1> QED
    BY <1>8, <1>10 DEF Preserved, Drained

(* Backends: the inbox is drained before a prompt and filtered after it.   *)
LEMMA BackendFits ==
    ASSUME RoutingInv, InvokeSubagent \/ InvokeAcp \/ PromptReturns \/ PromptFails
    PROVE  TypeOK' /\ Preserved
  <1>1. /\ run # Nothing /\ run.at \in {"invoke", "prompt"}
        /\ UNCHANGED <<cfg, card, cache, last, result, edits>>
    BY DEF InvokeSubagent, InvokeAcp, PromptReturns, PromptFails, Running, policy
  <1>2. /\ run \in Execution /\ Underway(cfg, card[run.card], run, client)
        /\ result[run.card] = Nothing
        /\ client \in Dirs \cup {"unloaded", "missing"}
        /\ result \in [Cards -> Submission \cup {Nothing}] /\ inbox \subseteq Chunks
    BY <1>1, RunParts DEF RoutingInv, TypeOK
  <1> DEFINE Good ==
                 /\ client' \in Dirs \cup {"unloaded", "missing"}
                 /\ run' \in Execution \cup {Nothing}
                 /\ result' \in [Cards -> Submission \cup {Nothing}]
                 /\ RunFits' /\ ResultsFit'
  <1>f. ASSUME NEW end \in {"infra", "config"}, Failed(end)
        PROVE  Good /\ ~Running("prompt")'
    BY <1>1, <1>f, FailedFits
  <1>h. ASSUME NEW named \in BOOLEAN,
               NEW chunks \in SUBSET ({"own", "untagged"} \cup (IF named THEN {} ELSE {"tagged"})),
               Heard(chunks, named), UNCHANGED client
        PROVE  Good /\ ~Running("prompt")'
    <2>1. run' \in Execution \cup {Nothing} /\ RunFits' /\ ResultsFit' /\ ~Running("prompt")'
      BY <1>1, <1>h, HeardFits
    <2> QED
      BY <1>1, <1>2, <1>h, <2>1
  <1>p. ASSUME run' = [run EXCEPT !.at = "prompt"], UNCHANGED client PROVE Good
    <2>1. /\ run' \in Execution /\ run'.at = "prompt"
          /\ run'.card = run.card /\ run'.role = run.role
          /\ run'.seen = run.seen /\ run'.dir = run.dir /\ run'.profile = run.profile
          /\ run'.decision = run.decision /\ run'.version = run.version
          /\ run'.routedIn = run.routedIn /\ run'.tries = run.tries /\ run'.heard = run.heard
          /\ run'.named = run.named
      BY <1>2, <1>p DEF Execution
    <2>2. Sound(cfg, run') /\ FellBackOnce(cfg, run')
      BY <1>2, <2>1 DEF Underway, Sound, FellBackOnce
    <2>3. Underway(cfg, card[run.card], run', client')
      BY <1>1, <1>2, <2>1, <2>2 DEF Underway, Resolving, Invoking, Replying, Returning
    <2>4. RunFits' /\ ResultsFit'
      BY <1>1, <1>2, <1>p, <2>1, <2>3 DEF RunFits, ResultsFit, RoutingInv
    <2> QED
      BY <1>1, <1>2, <1>p, <2>1, <2>4
  <1>3. ASSUME InvokeSubagent
        PROVE  Good /\ UNCHANGED servers /\ run.at = "invoke" /\ ~Running("prompt")'
    BY <1>3, <1>f, <1>h DEF InvokeSubagent, Running
  <1>4. ASSUME InvokeAcp
        PROVE  /\ Good /\ streamed' = streamed /\ inbox' \in {{}, inbox} /\ run.at = "invoke"
               /\ inbox' = {} \/ ~Running("prompt")'
    BY <1>4, <1>f, <1>p DEF InvokeAcp, Running
  <1>5. ASSUME PromptReturns PROVE Good /\ streamed' = TRUE /\ inbox' = {}
    <2>1. /\ client' = client /\ streamed' = TRUE /\ inbox' = {} /\ Running("prompt")
          /\ \E named \in BOOLEAN : Heard(Collect(named), named)
      BY <1>5 DEF PromptReturns, policy
    <2>2. PICK named \in BOOLEAN : Heard(Collect(named), named)
      BY <2>1
    <2>3. "left" \notin inbox
      BY <2>1 DEF RoutingInv, Drained
    <2>4. Collect(named) \in SUBSET ({"own", "untagged"} \cup (IF named THEN {} ELSE {"tagged"}))
      BY <2>3 DEF Collect
    <2> QED
      BY <1>h, <2>1, <2>2, <2>4
  <1>6. ASSUME PromptFails
        PROVE  Good /\ streamed' = TRUE /\ inbox' \subseteq Chunks /\ ~Running("prompt")'
    BY <1>6, <1>f DEF PromptFails, Afterwards, Chunks
  <1>7. Good
    BY <1>3, <1>4, <1>5, <1>6
  <1>8. /\ inbox' \subseteq Chunks /\ streamed' \in BOOLEAN
        /\ inbox' # {} => streamed'
    BY <1>2, <1>3, <1>4, <1>5, <1>6 DEF RoutingInv, TypeOK, Running, servers
  <1>9. Drained'
    BY <1>3, <1>4, <1>5, <1>6 DEF Drained
  <1>10. TypeOK'
    BY <1>1, <1>7, <1>8 DEF RoutingInv, TypeOK
  <1> QED
    BY <1>1, <1>7, <1>9, <1>10 DEF Preserved, RoutingInv, CacheFits

(* Chunks come from a session in progress or after one; during a prompt    *)
(* none is from before it.                                                 *)
LEMMA StreamFits == ASSUME RoutingInv, Stream PROVE TypeOK' /\ Preserved
  <1>1. /\ UNCHANGED <<cfg, card, cache, last, client, streamed, run, result, edits>>
        /\ \E chunk \in Arriving : inbox' = inbox \cup {chunk}
    BY DEF Stream, policy
  <1>2. /\ Arriving \subseteq Chunks /\ (Arriving # {} => streamed \/ Running("prompt"))
        /\ Running("prompt") => "left" \notin Arriving
    BY DEF Arriving, Chunks
  <1>3. inbox' \subseteq Chunks /\ (streamed \/ Running("prompt"))
    BY <1>1, <1>2 DEF RoutingInv, TypeOK
  <1>4. TypeOK'
    BY <1>1, <1>3 DEF RoutingInv, TypeOK, Running
  <1>5. Drained'
    BY <1>1, <1>2 DEF RoutingInv, Drained, Running
  <1> QED
    BY <1>1, <1>4, <1>5 DEF Preserved, RoutingInv, RunFits, ResultsFit, CacheFits

(* The answer is read.                                                     *)
LEMMA ReplyStep == ASSUME RoutingInv, ReplyText \/ ReplyNo \/ ReplyPlan PROVE TypeOK' /\ Preserved
  <1> DEFINE Good ==
                 /\ client' \in Dirs \cup {"unloaded", "missing"}
                 /\ run' \in Execution \cup {Nothing}
                 /\ result' \in [Cards -> Submission \cup {Nothing}]
                 /\ RunFits' /\ ResultsFit' /\ ~Running("prompt")'
                 /\ UNCHANGED <<cfg, card, cache, last, servers, edits>>
                 /\ Running("reply")
  <1>1. ASSUME NEW kind \in {"ok", "blocked", "rework", "infra"},
               NEW criteria \in SUBSET Criteria, NEW reasons \in SUBSET Criteria,
               kind = "ok" /\ criteria # {} => run.seen.criteria \ criteria \subseteq reasons,
               Reply(kind, criteria, reasons)
        PROVE  Good
    <2>1. UNCHANGED <<cfg, card, cache, last, servers, edits>> /\ Running("reply")
      BY <1>1 DEF Reply
    <2> QED
      BY <1>1, <2>1, ReplyFits
  <1>2. ASSUME ReplyText PROVE Good
    <2>1. Reply(IF run.role = "planner" THEN "infra" ELSE "ok", {}, {})
      BY <1>2 DEF ReplyText
    <2> QED
      BY <1>1, <2>1
  <1>3. ASSUME ReplyNo PROVE Good
    <2>1. Reply("blocked", {}, {}) \/ Reply("rework", {}, {})
      BY <1>3 DEF ReplyNo
    <2> QED
      BY <1>1, <2>1
  <1>4. ASSUME ReplyPlan PROVE Good
    <2>1. PICK new \in SUBSET Criteria, reasons \in SUBSET Criteria :
              Reply(IF Acceptable(new, reasons) THEN "ok" ELSE "blocked", new, reasons)
      BY <1>4 DEF ReplyPlan
    <2>2. CASE Acceptable(new, reasons)
      BY <1>1, <2>1, <2>2 DEF Acceptable
    <2>3. CASE ~Acceptable(new, reasons)
      BY <1>1, <2>1, <2>3
    <2> QED
      BY <2>2, <2>3
  <1>5. Good
    BY <1>2, <1>3, <1>4
  <1>6. inbox' # {} => streamed'
    BY <1>5 DEF RoutingInv, TypeOK, Running, servers
  <1>7. TypeOK'
    BY <1>5, <1>6 DEF RoutingInv, TypeOK, servers
  <1> QED
    BY <1>5, <1>7 DEF Preserved, RoutingInv, CacheFits, Drained

(* What is submitted fits the card, which waits for it.                    *)
LEMMA SubmitFits == ASSUME RoutingInv, Submit PROVE TypeOK' /\ Preserved
  <1>1. /\ run # Nothing /\ run.at = "over" /\ run' = Nothing
        /\ client' = IF run.saved = Nothing THEN client ELSE run.saved
        /\ result' = [result EXCEPT ![run.card] = run.returned]
        /\ UNCHANGED <<cfg, card, cache, last, servers, edits>>
    BY DEF Submit, Running, Restored
  <1>2. /\ run.card \in Cards /\ run.saved \in Dirs \cup {Nothing}
        /\ result \in [Cards -> Submission \cup {Nothing}]
        /\ client \in Dirs \cup {"unloaded", "missing"}
        /\ run.returned \in Submission /\ Submitted(card[run.card], run.returned)
    BY <1>1, RunParts DEF RoutingInv, TypeOK, Execution, Underway, Returning
  <1>3. result' \in [Cards -> Submission \cup {Nothing}]
    BY <1>1, <1>2
  <1>4. ResultsFit'
    <2> SUFFICES ASSUME NEW c \in Cards, result'[c] # Nothing
                 PROVE  Submitted(card[c], result'[c])
      BY <1>1 DEF ResultsFit
    <2>1. CASE c = run.card
      BY <1>1, <1>2, <2>1
    <2>2. CASE c # run.card
      BY <1>1, <1>2, <2>2 DEF RoutingInv, ResultsFit
    <2> QED
      BY <2>1, <2>2
  <1>5. inbox' # {} => streamed'
    BY <1>1 DEF RoutingInv, TypeOK, Running, servers
  <1>6. TypeOK'
    BY <1>1, <1>2, <1>3, <1>5 DEF RoutingInv, TypeOK, servers
  <1>7. RunFits' /\ CacheFits' /\ Drained'
    BY <1>1 DEF RoutingInv, RunFits, CacheFits, Drained, Running
  <1> QED
    BY <1>4, <1>6, <1>7 DEF Preserved

(* A commit finds the card as the execution has left it.                   *)
LEMMA CommitFits == ASSUME RoutingInv, NEW c \in Cards, Commit(c) PROVE TypeOK' /\ Preserved
  <1>1. /\ card \in [Cards -> CardFile] /\ result \in [Cards -> Submission \cup {Nothing}]
        /\ last \in [Cards -> [Roles -> Decision \cup {Nothing}]]
    BY DEF RoutingInv, TypeOK, CardFile
  <1>2. /\ result[c] # Nothing /\ result[c] \in Submission /\ card[c].stage \in Roles
        /\ result[c].criteria \in SUBSET Criteria
    BY <1>1 DEF Commit, RoutingInv, ResultsFit, Submitted, Submission
  <1>3. /\ card' = [card EXCEPT ![c] = Applied(card[c], result[c].kind, result[c].criteria)]
        /\ result' = [result EXCEPT ![c] = Nothing]
        /\ UNCHANGED <<cfg, client, servers, run, edits>>
    BY DEF Commit
  <1>4. card' \in [Cards -> CardFile] /\ \A d \in Cards : d # c => card'[d] = card[d]
    BY <1>1, <1>2, <1>3, AppliedFits
  <1>5. result' \in [Cards -> Submission \cup {Nothing}]
    BY <1>1, <1>3
  <1>6. cache' \subseteq cache /\ last' \in [Cards -> [Roles -> Decision \cup {Nothing}]]
    BY <1>1 DEF Commit, Forget
  <1>7. TypeOK'
    BY <1>3, <1>4, <1>5, <1>6 DEF RoutingInv, TypeOK, CardFile, servers, Running
  <1>8. RunFits'
    <2>1. run # Nothing => run.card \in Cards /\ run.card # c
      BY <1>2, RunParts
    <2>2. run # Nothing => card'[run.card] = card[run.card] /\ result'[run.card] = result[run.card]
      BY <1>1, <1>3, <1>4, <2>1
    <2> QED
      BY <1>3, <2>2 DEF RoutingInv, RunFits
  <1>9. ResultsFit'
    BY <1>1, <1>3, <1>4 DEF RoutingInv, ResultsFit
  <1>10. CacheFits'
    BY <1>3, <1>6 DEF RoutingInv, CacheFits
  <1>11. Drained'
    BY <1>3 DEF RoutingInv, Drained, Running, servers
  <1> QED
    BY <1>7, <1>8, <1>9, <1>10, <1>11 DEF Preserved

(* Other executors and the operator touch only cards nobody here is        *)
(* responsible for.                                                        *)
LEMMA OthersFit == ASSUME RoutingInv, NEW c \in Cards, Elsewhere(c) \/ Edit(c) PROVE TypeOK' /\ Preserved
  <1>1. card \in [Cards -> CardFile] /\ edits \in 0..MaxEdits /\ MaxEdits \in Nat
    BY RoutingAssumption DEF RoutingInv, TypeOK, CardFile, RoutingAssumption
  <1>2. /\ result[c] = Nothing /\ (run # Nothing => run.card # c)
        /\ UNCHANGED <<cfg, cache, last, client, servers, run, result>>
    BY DEF Elsewhere, Edit, Idle, policy
  <1>3. card' \in [Cards -> CardFile] /\ \A d \in Cards : d # c => card'[d] = card[d]
    <2>1. CASE Elsewhere(c)
      <3>1. PICK kind : card' = [card EXCEPT ![c] = Applied(card[c], kind, {})]
        BY <2>1 DEF Elsewhere
      <3>2. Applied(card[c], kind, {}) \in CardFile
        BY <1>1, <2>1, AppliedFits DEF Elsewhere
      <3> QED
        BY <1>1, <3>1, <3>2
    <2>2. CASE Edit(c)
      <3>1. CASE \E pin \in Pins : card' = [card EXCEPT ![c].pin = pin]
        BY <1>1, <3>1 DEF CardFile
      <3>2. CASE \E criteria \in SUBSET Criteria : card' = [card EXCEPT ![c].criteria = criteria]
        BY <1>1, <3>2 DEF CardFile
      <3>3. CASE \E stage \in {"planner", "worker"} : card' = [card EXCEPT ![c].stage = stage]
        BY <1>1, <3>3 DEF CardFile, Stages, Roles
      <3> QED
        BY <2>2, <3>1, <3>2, <3>3 DEF Edit
    <2> QED
      BY <2>1, <2>2
  <1>4. edits' \in 0..MaxEdits
    BY <1>1 DEF Elsewhere, Edit
  <1>5. TypeOK'
    BY <1>2, <1>3, <1>4 DEF RoutingInv, TypeOK, CardFile, servers, Running
  <1>6. RunFits'
    <2>1. run # Nothing => run.card \in Cards
      BY RunParts
    <2> QED
      BY <1>2, <1>3, <2>1 DEF RoutingInv, RunFits
  <1>7. ResultsFit' /\ CacheFits' /\ Drained'
    BY <1>2, <1>3 DEF RoutingInv, ResultsFit, CacheFits, Drained, Running, servers
  <1> QED
    BY <1>5, <1>6, <1>7 DEF Preserved

(* A restart forgets what is kept between executions, and nothing else.    *)
LEMMA RestartFits == ASSUME RoutingInv, Restart PROVE TypeOK' /\ Preserved
  <1>1. /\ UNCHANGED <<cfg, card, run, result, edits>> /\ run = Nothing
        /\ cache' = {} /\ last' = [c \in Cards |-> [role \in Roles |-> Nothing]]
        /\ client' = "unloaded" /\ inbox' = {} /\ streamed' = FALSE
    BY DEF Restart
  <1>2. TypeOK'
    BY <1>1 DEF RoutingInv, TypeOK
  <1> QED
    BY <1>1, <1>2 DEF RoutingInv, RunFits, ResultsFit, CacheFits, Drained, Running, Preserved

-----------------------------------------------------------------------------
(* Every step keeps the invariant: the configuration is read once, and     *)
(* each action is one of the cases above.                                  *)
LEMMA RoutingStep == RoutingInv /\ [Next]_vars => RoutingInv'
  <1> SUFFICES ASSUME RoutingInv, [Next]_vars PROVE RoutingInv'
    OBVIOUS
  <1>1. cfg' = cfg
    BY DEF Next, Executor, Start, UsePin, SkipRouter, Recall, LoadClient, Route, InvokeSubagent,
           InvokeAcp, PromptReturns, PromptFails, ReplyText, ReplyNo, ReplyPlan, Reply, Submit,
           Stream, Restart, Commit, Elsewhere, Edit, vars
  <1>2. TypeOK' /\ Preserved
    <2>1. CASE UNCHANGED vars
      BY <2>1
      DEF vars, policy, servers, RoutingInv, TypeOK, Running, RunFits, ResultsFit, CacheFits, Drained,
          Preserved
    <2> QED
      BY <2>1, StartFits, PinFits, RouterFits, BackendFits, StreamFits, ReplyStep, SubmitFits, CommitFits,
         OthersFit, RestartFits
      DEF Next, Executor
  <1> QED
    BY <1>1, <1>2 DEF RoutingInv, Preserved, Loads, DefaultsFit, FallbacksFit, Circular

(* An executor that has just been created keeps nothing.                   *)
LEMMA RoutingInit == Init => RoutingInv
  <1> SUFFICES ASSUME Init PROVE RoutingInv
    OBVIOUS
  <1>1. PICK pin \in [Cards -> Pins] :
            card = [c \in Cards |-> [pin |-> pin[c], criteria |-> {}, rework |-> 0,
                                     stage |-> "planner", attempt |-> 0]]
    BY DEF Init
  <1>2. /\ 0 \in 0..ReworkBudget /\ 0 \in 0..RetryBudget /\ 0 \in 0..MaxEdits
        /\ "planner" \in Stages
    BY RoutingAssumption DEF RoutingAssumption, Stages, Roles
  <1>3. card \in [Cards -> [pin : Pins, criteria : SUBSET Criteria, rework : 0..ReworkBudget,
                            stage : Stages, attempt : 0..RetryBudget]]
    BY <1>1, <1>2
  <1>4. TypeOK
    BY <1>2, <1>3 DEF Init, TypeOK
  <1> QED
    BY <1>4 DEF Init, RoutingInv, RunFits, ResultsFit, CacheFits, Drained, Running

(* What holds of the executor between any two steps.                       *)
LEMMA RoutingInvariant == Spec => []RoutingInv
  BY RoutingInit, RoutingStep, PTL DEF Spec


-----------------------------------------------------------------------------
(* An execution has its type and is sound, before and after it has ended.  *)
LEMMA ExecutionsSound ==
    ASSUME RoutingInv, NEW e \in Executions
    PROVE  /\ e = run /\ run # Nothing /\ Underway(cfg, card[run.card], run, client)
           /\ e \in Execution /\ Sound(cfg, e)
  BY RunParts DEF Executions, Underway

(* The values of Routing's variables stay in their types; in particular    *)
(* attempts and reworks stay within their budgets, and chunks wait in the  *)
(* inbox only during a session or after one (Routing.TypeOK).              *)
THEOREM RoutingTypes == Spec => []TypeOK
  <1>1. RoutingInv => TypeOK
    BY DEF RoutingInv
  <1> QED
    BY <1>1, RoutingInvariant, PTL

(* Every profile an execution has run on has the role of the execution:    *)
(* load_config, the candidates of the router and resolution see to it for  *)
(* every accepted configuration, fallbacks included (Routing.RightRole).   *)
THEOREM OnlyTheRole == Spec => []RightRole
  <1>1. RoutingInv => RightRole
    BY ExecutionsSound DEF RightRole, Sound
  <1> QED
    BY <1>1, RoutingInvariant, PTL

(* A decision of the router that an execution follows was made about the   *)
(* card as the execution sees it, whoever has reworked or edited it since  *)
(* the decision was kept (Routing.Fresh).                                  *)
THEOREM DecisionsAreFresh == Spec => []Fresh
  <1>1. RoutingInv => Fresh
    BY ExecutionsSound DEF Fresh, Sound
  <1> QED
    BY <1>1, RoutingInvariant, PTL

(* What the executor returns names the router's prompt version exactly     *)
(* when the router had a say in the execution, never in an earlier one of  *)
(* the card (Routing.Attributed).  Nothing is said of what is committed:   *)
(* an envelope does not keep the version.                                  *)
THEOREM VersionsAreAttributed == Spec => []Attributed
  <1>1. RoutingInv => Attributed
    BY ExecutionsSound DEF Attributed, Sound
  <1> QED
    BY <1>1, RoutingInvariant, PTL

(* What is read as the answer was not in the inbox before the prompt and   *)
(* comes from its server; of another session it holds only chunks that no  *)
(* tag tells apart (Routing.OwnWords).                                     *)
THEOREM AnswersAreHeardOnce == Spec => []OwnWords
  <1>1. RoutingInv => OwnWords
    BY ExecutionsSound DEF OwnWords, Sound
  <1> QED
    BY <1>1, RoutingInvariant, PTL

(* A router that is asked for a claim with a worktree works in that        *)
(* worktree, whether its client was created by this request or patched for *)
(* it (Routing.RouterInPlace).                                             *)
THEOREM RouterWorksInPlace == Spec => []RouterInPlace
  <1>1. RoutingInv => RouterInPlace
    BY ExecutionsSound DEF RouterInPlace, Sound
  <1> QED
    BY <1>1, RoutingInvariant, PTL

(* Before any backend is tried an execution ends only for a pin that names *)
(* no profile or because the router's specification cannot be read: an     *)
(* answer of the router, fresh or recalled, and its outage end none        *)
(* (Routing.RouterHarmless).                                               *)
THEOREM RouterBlocksNothing == Spec => []RouterHarmless
  <1>1. ASSUME RoutingInv, NEW e \in Executions, e.at = "over" PROVE Untried(e, e.returned.kind, client)
    BY <1>1, ExecutionsSound DEF Underway, Returning
  <1>2. RoutingInv => RouterHarmless
    BY <1>1 DEF RouterHarmless, Untried
  <1> QED
    BY <1>2, RoutingInvariant, PTL

(* At most one fallback is tried, after a failure of the infrastructure,   *)
(* and what the executor returns with an answer names the profile the      *)
(* answer came from (Routing.FallbackJustified).                           *)
THEOREM OneFallback == Spec => []FallbackJustified
  <1>1. ASSUME RoutingInv, NEW e \in Executions
        PROVE  /\ FellBackOnce(cfg, e)
               /\ e.at = "over" /\ e.returned.kind \in {"ok", "rework"} => Answered(e)
    BY <1>1, ExecutionsSound DEF Underway, Returning
  <1>2. RoutingInv => FallbackJustified
    BY <1>1 DEF FallbackJustified, FellBackOnce, Answered
  <1> QED
    BY <1>2, RoutingInvariant, PTL

(* A criterion leaves a card only by the hand of the operator or with a    *)
(* result that gives a reason for it: a list that drops criteria was       *)
(* checked against the criteria the planner had seen, and nobody has       *)
(* changed the card while it waited to be committed (Routing.ContractKept).*)
THEOREM CriteriaAreKept == Spec => ContractKept
  <1> DEFINE Dropped(c) == card[c].criteria \ card'[c].criteria
             Justified(c) == Dropped(c) # {} /\ edits' = edits =>
                                 result[c] # Nothing /\ Dropped(c) \subseteq result[c].reasons
  <1>1. ASSUME RoutingInv, [Next]_vars, NEW c \in Cards PROVE Justified(c)
    <2>1. /\ card \in [Cards -> CardFile] /\ edits \in Nat
          /\ result \in [Cards -> Submission \cup {Nothing}]
      BY <1>1, RoutingAssumption DEF RoutingInv, TypeOK, CardFile, RoutingAssumption
    <2>2. ASSUME NEW d \in Cards, Commit(d) PROVE Justified(c)
      <3>1. /\ result[d] # Nothing /\ result[d] \in Submission /\ card[d] \in CardFile
            /\ card' = [card EXCEPT ![d] = Applied(card[d], result[d].kind, result[d].criteria)]
        BY <2>1, <2>2 DEF Commit
      <3>2. Submitted(card[d], result[d])
        BY <1>1, <3>1 DEF RoutingInv, ResultsFit
      <3>3. CASE c # d
        BY <2>1, <3>1, <3>3
      <3>4. CASE c = d
        <4>1. card'[c] = Applied(card[c], result[c].kind, result[c].criteria)
          BY <2>1, <3>1, <3>4
        <4>2. \/ card'[c].criteria = card[c].criteria
              \/ /\ result[c].kind = "ok" /\ result[c].criteria # {}
                 /\ card'[c].criteria = result[c].criteria
          BY <3>1, <3>4, <4>1 DEF Applied, CardFile
        <4> QED
          BY <3>1, <3>2, <3>4, <4>2 DEF Submitted
      <3> QED
        BY <3>3, <3>4
    <2>3. ASSUME NEW d \in Cards, Elsewhere(d) PROVE Justified(c)
      <3>1. PICK kind : card' = [card EXCEPT ![d] = Applied(card[d], kind, {})]
        BY <2>3 DEF Elsewhere
      <3>2. Applied(card[d], kind, {}).criteria = card[d].criteria
        BY <2>1 DEF Applied, CardFile
      <3> QED
        BY <2>1, <3>1, <3>2
    <2>4. ASSUME NEW d \in Cards, Edit(d) PROVE Justified(c)
      BY <2>1, <2>4 DEF Edit
    <2>5. ASSUME Executor \/ Stream \/ Restart \/ UNCHANGED vars PROVE Justified(c)
      <3>1. card' = card
        BY <2>5 DEF Executor, Start, UsePin, SkipRouter, Recall, LoadClient, Route,
                    InvokeSubagent, InvokeAcp, PromptReturns, PromptFails, ReplyText, ReplyNo,
                    ReplyPlan, Reply, Submit, Stream, Restart, vars
      <3> QED
        BY <3>1
    <2> QED
      BY <1>1, <2>2, <2>3, <2>4, <2>5 DEF Next
  <1>2. RoutingInv /\ [Next]_vars =>
            [ \A c \in Cards :
                 LET dropped == card[c].criteria \ card'[c].criteria IN
                 dropped # {} /\ edits' = edits =>
                     result[c] # Nothing /\ dropped \subseteq result[c].reasons ]_vars
    BY <1>1
  <1> QED
    BY <1>2, RoutingInvariant, PTL DEF Spec, ContractKept
=============================================================================
