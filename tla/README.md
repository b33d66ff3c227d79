# A verified model of the loco troubleshooting copilot

The copilot guides a locomotive pilot through the fault procedures of a railway
troubleshooting manual. Language models read the pilot's messages, choose
diagnostic tools and phrase the replies; a deterministic engine decides *what* is
said. The parser's choices, the engine, the knowledge base it interprets, the agent's
loop around it and the HTTP service with its sessions are specified here in TLA+ and
checked with TLC on small instances. Every safety claim about them is also proved with
TLAPS: of the engine and the parser for every knowledge base, every vocabulary of facts
and every set of messages, of the loop for every cap on its checks, of the service and
its bar for every set of requests. Liveness is checked on the instances only.

## 1. The system

| part | state it keeps | operations | hard behaviour |
|---|---|---|---|
| knowledge base (`kb/schema.py`, `kb/faults/*.yaml`) | immutable: faults, steps, gates, isolations, combination / route / defer rules | validators at load | 101 files of one grammar: a combination of features no file had before |
| conversation state (`engine/state.py`) | `DiagnosisState`: matched fault, claims, facts, relays, intention, loco, bookkeeping about resets | `update_state`, `resolve_combination` / `_switch_to` | long sequences of partial reports; facts that outlive what they were said about |
| delta (`engine/diff.py`) | none | `diff_steps`, `step_skipped` | branches, route alternatives, observations, axes and gates interact |
| safety reflex (`engine/gates.py`) | none | `evaluate_gates` | must hold whatever order the reports came in |
| router (`engine/reassess.py`, `engine/terminals.py`) | writes `stuck_at`, `reset_instructed` | `reassess` | called several times for one message |
| agent loop (`agent/graph.py`, `llm/decide.py`, `engine/tools.py`) | per turn `GraphState`; tool cache in the state | the nodes of one turn, `run_tool` | a model picks the tools; caches, caps and reroutes; a provider fails anywhere |
| parser (`llm/parse.py`, `engine/matcher.py`) | `clarify_asked`, and whether a list was offered | `parse_turn`, `_unresolved`, the exact list | the model's reading is arbitrary; only validation and precedence are the code's |
| session store (`agent/session.py`) | sessions by id, one lock, transcripts | `get_or_create`, `diagnose`, `reset` | a session outlives its deletion; a turn that raises |
| session bar (`engine/state.py`) | `locos`, `active_loco`, `config` | `set_locos`, `swap_locos`, the merge of a stated configuration | three fields that must agree, written one after another |
| HTTP service (`api/server.py`) | none of its own | diagnose, locos, swap, read, delete | endpoints that bypass the lock; a bar set before the lock is taken |
| phrasing (`llm/phrase.py`) | none | `phrase` | falls back to the KB's words |
| client, demo, evaluation | none of the copilot's | | |

One message runs through them in this order: `parse_turn` makes a `StateUpdate` of
it; `update_state` merges it; `resolve_combination` settles which procedure it is
about; the reflex judges the merged state and, if it fires, answers; otherwise the
model may ask for tools (each followed by the reflex again) until a guard, a cap or
the model itself ends the loop; `reassess` gives the answer; `phrase` words it. One
turn runs under the store's lock, so turns do not interleave; what interleaves with
them are the failures of the providers, the lookup of a session by another request, and
the endpoints outside the lock.

What makes each part correct:

* the parser: whatever the model reads into a message, the engine is handed an update it
  may trust, and a relay named in words the KB knows is not left to the model;
* the state: what was recorded about resets is never lost; a reroute carries the
  claims that belong to the new procedure; identity is settled before it is judged;
* the reflex and router: a reset is instructed only when the manual allows it, a
  second act of the relay is refused, a hazardous step waits for its preconditions,
  a guess is confirmed first, a question is about something due, "complete" means done;
* the loop: whatever tools are chosen, the pilot hears the engine's own answer to
  the state, every turn ends, and within the framework's step limit;
* guidance as a whole: a pilot who answers is led to an end;
* the service: a session is one conversation whatever requests interleave, every request
  is answered, and the fault stays attributed to the loco the pilot put it on.

`PROJECT.json` lists every component, with those left out and why, and every hazard
with the line where it bites and the properties aimed at it.

## 2. Modules

```
Procedure ── Reflex ── Diagnosis ─┬─ Conversation ─┬─ Copilot ──────── (implements Promise)
                  │               │                ├─ Retry
                  └─ Faults       │                └─ Intake            (implements Diagnosis)
                    (KB excerpts) ├─ Guidance
                                  └─ DiagnosisProofs ─┬─ ChecklistProofs ── CopilotProofs
                                                      └─ IntakeProofs

Promise    what a message may come to           Sessions ── Service ── ServiceProofs ── BarProofs
```

`Copilot`, `Retry` and `Intake` extend `Conversation`; `CopilotProofs` and `IntakeProofs`
extend the model they are about as well. `Service` implements `Sessions`.

* **Procedure** — the records of the knowledge base (`KB` is a constant; the schema's
  validators are the assumption `KBAssumption`, what its files keep beyond them
  `FilesAssumption`), the conversation state `d`, and as
  pure operators `UpdateState`, `ResolveCombination`, `Skipped`, `Missing` and
  `NeedsAxis`. `d` has the fields of `DiagnosisState` the engine acts on:
  `matched_fault` is `fault`, `steps_claimed_done` `claimed`, `history_facts` `facts`,
  `facts_this_turn` `said`, the list `other_relays_acted` the set `relays`, the active
  loco's axes `loco`, `tool_results["unrecognised_claims"]` `unrecognised`. An absent
  key has the value `Unstated`. `steps_required` is always the matched fault's step
  list and so is not kept.
* **Reflex** — `EvaluateGates` (rules 1 to 6 of `gates.py`, the hazard gate, severity)
  and `Reassess`, which returns the state it leaves and the terminal. A terminal names
  the KB text it carries instead of holding it; sets of reasons and guidance stand for
  the tuples, whose order nothing reads.
* **Diagnosis** — one `run_turn` per step: `Turn(u)` merges, reroutes, judges and
  answers the update `u`. `Messages` are the updates the parser may hand over.
  `WellParsed` and `HandedOver` are what `parse_turn` guarantees of them: a fault
  named by an alias is certain and presents itself, a guessed one is unconfirmed, the
  matched fault is only ever confirmed, and a fault of the matched one's family keeps
  the identity already resolved. All engine properties are stated here.
* **Promise** — what the copilot promises of one message, in its own terms: it is answered
  in one step (`Answered`), lost to a provider's failure after its merge (`Lost`), or not
  understood and changes nothing but the words (`Unresolved`). What a message is about,
  what a state may become before it is answered, and what counts as an answer are
  parameters.
* **Conversation** — those parameters, from the code: `Merged` is all that the update and
  the tools may leave behind in the state (`Hops`: the faults one reroute after another
  leads to; `Worked`: the position `diff_completed_steps` may write on the way), `Outcome`
  the engine's answer to such a state, or the referral to TLC of a procedure that is not
  encoded.
* **Intake** — the parser in front of the engine, one message per step. An input `m` holds
  what the text matches without a model (`exact`, `hits`, `phrases`: the alias matcher and
  the KB's phrase tables are its inputs) and what the model reads into it (`ParseOutput`;
  `sure` is the confidence above `CLARIFY_THRESHOLD`), in any combination. `Subject`,
  `Certainty`, `Presenting`, `History` and `Claimed` are the branches of `parse_turn`;
  `Parsed` is its `StateUpdate`. A message is understood (`Understand`, which runs the
  engine's turn), asks for the exact list again (`ShowTheList`) or is not understood
  (`NotUnderstood`, with the clarification counter). `heard` is what the pilot has said so
  far, kept for the properties; the program has no such variable. `ParserAssumption` makes
  the engine's `Messages` those of the parser's updates that the engine may trust; that
  the parser makes no other is the property `HandsOverWellParsed`, proved in section 5, so
  the theorems about the engine's messages become theorems about text.
* **Copilot** — the graph, one action per node. `pc` is the node about to run, `turn`
  the `GraphState`, `cache` the snapshot each tool's result was computed for. Whether
  a message is understood, which tool the model names (registered or not) and whether
  its provider fails are nondeterministic. `Promised` is `Promise` with `diag` read as
  `settled`, the state as the last turn left it.
* **Retry** — the message that met a 503 and is said again.
* **Sessions** — the promise of the service: a session is a log of turns, each answered at
  one instant in the light of the one before it; forgetting empties the log; only a turn
  whose session was forgotten meanwhile may be answered without a trace.
* **Service** — requests in threads, statement by statement: `get_or_create` and `reset`
  under the lock, `set_locos` and `swap_locos` one assignment at a time without it,
  `diagnose` with its merge, answer and transcript. `heap` holds every `Session` object,
  `store` which of them an id leads to, so a turn can hold one that was deleted. What the
  engine does is folded into `Merge`, `MergeLoco` and `Judge`; a turn's answer is named by
  the turn. `late` and `overlapped` are kept for the properties.
* **Guidance** — a pilot who opens a fault and then answers each terminal; what they
  find on the loco, and what else they notice on the way, is arbitrary.
* **Faults** — excerpts of eleven fault files, chosen so that every kind of step, gate,
  reroute and axis occurs: each keeps the steps that differ in kind and as many plain
  checks as an instance needs. The step ids, conditions and rules kept are the files'.
* **DiagnosisProofs**, **ChecklistProofs**, **IntakeProofs**, **CopilotProofs**, **ServiceProofs**,
  **BarProofs** — the theorems of section 5.

Definitions introduced by a comment `Mutant:` are faulty variants of the definition
after them; no specification uses them.

## 3. What the runs check

Every property is preceded by a comment that states it and the code it is about.

| run | instance | properties |
|---|---|---|
| `engine` | six situations in one KB: QLM and its reset; QLM with QOP/QRSI and an isolation; roof work of the pantograph; QRSI-1's routes; ICDJ, its Q44 branch and the wedging; isolation of traction motors and the rb axis | `TypeOK`, `ResetOnlyAsPermitted`, `ResetNeverAPlainStep`, `RecurrenceRefused`, `SecondActRefused`, `BookkeepingKept`, `HazardOnlyWithPreconditions`, `IntentIsAnswered`, `GuessIsConfirmedFirst`, `AskedStepIsDue`, `ConfigAskedWhenItDecides`, `ConfirmMeansDone`, `AnswerIsStable`, `IdentitySettled`, `RerouteCarriesClaims` |
| `intake` | the hub "DJ tripped", the two QLM procedures and the battery-charger lamp procedure of which "DJ trips" is an answer; three topics of conversation | `HandsOverWellParsed`, `GuidedOnlyIfVouched`, `HubNeverTakesOver`, `AliasedSecondActRefused`, `NeverAskedTwice` |
| `copilot` | manual operation of a relay, the hub "DJ tripped" it leads back to, QLM and QLM with QOP beyond it; tools diff / combination / none | `LoopTypeOK`, `WithinLimits`, `SaysTheEnginesAnswer`, `ReflexComesFirst`, `ConversesAsPromised` (refinement), `TurnEnds` |
| `guidance` | the seven faults of `engine`, an answering pilot | `GuidanceEnds` |
| `service` | eight requests to two sessions, three or four to a scenario (five scenarios): a bar of two locos and of one, a swap, turns with a bar, with a configuration and with neither, a read, a deletion | `TurnsAreOneConversation` (refinement), `EveryRequestAnswered`, `BarSettles`, `SwapKeepsAttribution`, `TurnJudgedOnItsBar` |

**How three of them are stated.** `IdentitySettled` says what `resolve_combination` gives on
every KB: one hop a message, so a reroute is left open only by a turn that was itself
rerouted, onto the fault it ends on. That no reroute is open at all is true only of a KB
without chains, and false of this one (`wrong_procedure`). `ReflexComesFirst` is about the
state as it is: no gate of it fires at any node between the reflex and the next change of
state, whichever of merge, tool or reroute changed it. `GuidedOnlyIfVouched` names the ways
a gated procedure may be reached without the model: named by the text, of the family of
one that is named, said yes to, or led to from such a one by the KB's reroutes. `HubNeverTakesOver` is the
other side of that: words that are the alias of a hub and, to the procedure at hand, an
answer ("then the DJ trips") leave the conversation where it is; `heard.answers` names the
procedure such words were said under.

**Bounds.** The specification of the engine has no counters; an instance is finite
because its KB and its messages are. One or two plain checks stand for three to eight:
the engine treats plain checks alike, and two are the least that tell "one" from "all".
Every message may come in every state, any number of times and in any order, so `engine`
and `intake` cover conversations of every length. A conversation of `engine` keeps to one
`situation` and one of `intake` to one `topic` (a variable of the MC module that never
changes): the product of the facts of several procedures is out of reach, and what facts
of one fault do to another is what `MCTwoRelays` and `MCHub` are for. In `service` each
request is sent at most once, since what a request does depends on the others only through
the session; each of the five scenarios sends the requests that touch the same fields or
the same lock, three in flight at a time, which is one more than an interleaving of two
needs for a third to be waiting. The state view runs beside a bar that is being replaced,
so that it may find the half-changed bar it raises on. In `copilot`, `MaxIter` is 2 where the code has 6, so
that the cap is reached on many paths, and `RecursionLimit` is 8·(MaxIter+2) as in
`Copilot.turn`; two of the six registered tools suffice because the other four only write
a cache entry, as the combination check does, and `none` stands for every unregistered name. The
messages open one chain of reroutes (a stated fact leads from the manual operation back to
the hub, the relays reported lead on to QLM and from there to QLM with QOP), so that a
turn is rerouted up to three times, by the merge and then by the tools, and the cap can cut
the chain short; a conversation stays with the trouble it was opened with (`OneTopic`). The theorems of
section 5 hold without these bounds, for every set of tools, messages and faults.

**Fairness.** `LoopSpec`: a started turn runs on. A turn is one call of `graph.invoke`
on one thread with nothing to wait for but the providers, whose clients have timeouts,
and a failing provider ends the turn; so WF of the nodes is justified (it is written
out as "the turn is infinitely often over, or nodes run for ever", which is the same
since some node is enabled exactly while `pc` is not idle). No fairness is put on the
model's choices. `Guided`: the pilot answers what they are asked and the copilot answers
the pilot (`Cooperation`); which answer is arbitrary. `ServiceSpec`: weak fairness of
each request's steps, because each runs in a thread of its own that the operating system
schedules and a provider's call returns or raises within its client's timeout. That is
enough for the lock, which is given to any waiter: requests are finitely many, each takes
it at most three times, and a waiter that is passed over waits for fewer and fewer of them.
A server under endless load could starve a waiter; nothing in the code prevents that.
The end of a conversation in `guidance` and the answer to the last request in `service`
are deadlocks by design, hence `CHECK_DEADLOCK FALSE` there and only there.

## 4. What the documents say and the code does not keep

Seven statements of the documents, comments and tests are refuted, each by a run
that stops with a shortest trace:

| run | statement | what happens |
|---|---|---|
| `reset_again` | a turn that instructs a second reset fails (BUILD_PLAN 12.2) | the history question is answered "no" and the reset cautioned; a later "yes" to it is dropped and recorded as *reset performed*, but the gated step is not claimed: the caution is given again |
| `reported_second_act` | the backstop does not depend on the parser (`state.py`) | a reset adopted as a claim at a reroute is not recorded; the next presentation is asked about, not refused |
| `fresh_fault` | no false confirmation (BUILD_PLAN 12.2) | `fault_resolved` of an earlier fault confirms the next one at once |
| `retry` | one occurrence is confirmed, not refused (`tests/test_recurrence.py`) | the repetition of a message lost to a 503 counts as a recurrence |
| `wrong_procedure` | no gate fires under the wrong procedure (`state.py`) | a merge makes one hop: the first, from the manual operation of a relay, ends on the hub and the provider fails; the next, of the following message, ends on QLM, whose gate answers although QOP acted too |
| `denied_fault` | "pilot says it is NOT that fault: drop it" (`parse.py`) | a denial whose words hold the hub's alias keeps the denied fault, and as confirmed |
| `retrip` | a re-trip after a reset is not met with a second "reset once" caution (HANDOFF) | the model reads a later message as *fault_recurred: no*; the record is overwritten and the caution given again |

`SecondActRefused`, which does hold, says what the backstop guarantees: resets
*on record* are followed by refusals. `RecurrenceRefused` is about what the fact says now,
`retrip` about the fact being taken back, and `BookkeepingKept` about the two flags that
never are. A message that presents the relay records the recurrence anew and is refused
whatever the model reads (`SecondActRefused`, `AliasedSecondActRefused`).

## 5. What is proved

### The engine

`DiagnosisProofs` proves for every `KB`, `Keys`, `Values`, `Axes` and `Messages` that
satisfy `KBAssumption` (the schema's validators, and that no fault file names the two
bookkeeping keys) and `MessagesAssumption` (`WellParsed`):

| theorem | states |
|---|---|
| `TypeCorrect` | `Spec => []TypeOK` |
| `ResetIsSafe` | `Spec => []ResetOnlyAsPermitted` |
| `RecurrenceIsRefused` | `Spec => []RecurrenceRefused` |
| `GuessIsConfirmed` | `Spec => []GuessIsConfirmedFirst` |
| `BookkeepingIsKept` | `Spec => BookkeepingKept` |
| `SecondActIsRefused` | `Spec => SecondActRefused` |
| `HazardIsGuarded` | `Spec => []HazardOnlyWithPreconditions` |

The argument has two layers. *Positions*: the code's "first" and "most severe" loops are
`First` and `MostSevere` over positions of a step list; that they exist for a non-empty
set is proved by well-founded induction on the naturals (`FirstIsLeast`,
`MostSevereExists`), and everything later cites those lemmas. *Answers*: `TypeStep` shows
that a step of `Next` is `Reassess` of some well-typed settled state (`NextAnswers`), and
`ReassessType` that the answer leaves the case alone (`SameJudgement`: fault,
confirmation, claims and every fact a fault file can name are unchanged, bookkeeping only
grows). Each safety invariant speaks of the terminal and of the state *after* the answer;
it is proved of `Reassess(d)` for the state `d` that was judged and carried over by
`SameJudgement`. Without that lemma no invariant is inductive, since `Reassess` itself
writes to the state. This is where `Bookkeeping` must be disjoint from the fact keys of the
KB. `SecondActIsRefused` combines three facts: an instruction is on record
(`InstructedOnRecord`, the strengthening of its step), a record and a presentation make
a recurrence (`PresentedAgainRecurs`), and a recurrence is refused. `HazardIsGuarded`
shows that a silent reflex means every gate is silent (`SilentGates`) and that a gated
step is put only when its gate was in play (`AskedGateIsInPlay`).

### The checklist

`ChecklistProofs` proves, in addition from `FilesAssumption`:

| theorem | states |
|---|---|
| `AskedStepIsTheFirstDue` | `Spec => []AskedStepIsDue` |
| `LocoIsAskedWhenItDecides` | `Spec => []ConfigAskedWhenItDecides` |
| `ConfirmedIsDone` | `Spec => []ConfirmMeansDone` |
| `ResetIsNeverAsked` | `Spec => []ResetNeverAPlainStep` |
| `AnswerIsTheSame` | `Spec => []AnswerIsStable` |
| `RerouteKeepsClaims` | `Spec => RerouteCarriesClaims` |
| `IdentityIsSettled` | `Spec => IdentitySettled` |
| `AnnouncedHazardIsAnswered` | `Spec => []IntentIsAnswered` |

`FilesAssumption` is what the properties need of the fault files and no validator demands:
no file reroutes to itself, a gated step is neither an observation nor on an axis of the
loco, and a reset comes after plain checks only. All 101 files keep it; a file that did
not would load, and could have its reset asked for like any check (`ResetIsNeverAsked`) or
its procedure called complete with a gated observation unanswered (`ConfirmedIsDone`: the
code looks for a gated step's claim when it is put, and for its fact when it is counted).

The argument is again in two layers. *Before the first step due*: `NothingDueBefore` says
that what lies before a position that no step due precedes and no gate holds back is
settled, done or not to be done; `AxisOfTheOpenStep`, `AskedStep`, `AskedAxis` and
`CompleteMeansSettled` read it off the four ways `AnswerProcedure` ends. `OpenResetSpeaks`
closes the one hole: with every check done the reset is in play, so its gate does not stay
silent, so it is never the gated step that is put. *After the answer*: asking moves the
position in the checklist and nothing the delta reads (`PositionIsIrrelevant`). The same
idea, with the record of what was instructed, gives `AnswerIsTheSame`: the two states an
answer may lie between are `Alike`, and every operator down from `EvaluateGates` and
`AnswerProcedure` gives the same on both (`AlikeDelta` to `AlikeMatched`).

`IdentityIsSettled` rests on two facts. Where a state would be rerouted depends on nothing
that answering changes (`AnsweringReroutesNowhere`; the facts of route rules are no
bookkeeping keys, which `WellFormedFault` states). And a turn that ends where it began was
not rerouted there: no file leads to itself, and a message that names a fault leading back
to the one at hand is not handed over as news of another fault (`Concerns`).
`AnnouncedHazardIsAnswered` is proved of `Reassess(d)`: an announced action is in play, its
gate's verdict is at least a caution (a question only where the step is claimed), the
verdict that speaks is no milder (`SeverestSpeaks`), and a confirmed fault lets it speak.

### The parser

`IntakeProofs` proves for every set of inputs, every KB and every alias table that satisfy
`ParserAssumption`:

| theorem | states |
|---|---|
| `WordsAreTurns` | `IntakeSpec => Spec`: `Intake` implements `Diagnosis` |
| `ParserIsSound` | `IntakeSpec => []HandsOverWellParsed` |
| `NamedSecondActIsRefused` | `IntakeSpec => AliasedSecondActRefused` |
| `GuidedIsVouched` | `IntakeSpec => []GuidedOnlyIfVouched` |
| `HubStaysOut` | `IntakeSpec => []HubNeverTakesOver` |
| `QuestionIsPutOnce` | `IntakeSpec => NeverAskedTwice` |

By `WordsAreTurns` every theorem about the engine is one about text: an understood message
is a `Turn`, every other message leaves the engine's variables alone. `ParserIsSound` is
the other half: that the parser's updates are `WellParsed` was assumed of messages and is
proved of the code that makes them, branch by branch of `Subject`. `GuidedIsVouched` needs
the invariant `ConfirmedIsVouched`: whenever the state says *confirmed*, its fault is one
the pilot's words lead to, whatever the answer was. A message keeps it because it makes a
fault certain only in one of four ways (`CertainIsVouched`), a reroute because it takes the
confirmation along only to a target of the fault it leaves (`LeadsToIsClosed`); that a
guess is not guided through is then `GuessIsConfirmed`, by way of `WordsAreTurns`.
`HubStaysOut` is inductive as it stands: an answer within the procedure names no fault
(`AnswerKeepsTheFault`), so only the reroute after the merge can leave it (`AnswerStep`).

### The loop

`CopilotProofs` proves for every KB, every set of messages and of tool choices, and every
`MaxIter` with the step limit `8 * (MaxIter + 2)` of `Copilot.turn` (`LoopAssumption`):

| theorem | states |
|---|---|
| `LoopTypesCorrect` | `LoopSafety => []LoopTypeOK` |
| `StaysWithinLimits` | `LoopSafety => []WithinLimits` |
| `EveryUpdateIsGuarded` | `LoopSafety => []ReflexComesFirst` |
| `EngineAnswers` | `LoopSafety => []SaysTheEnginesAnswer` |
| `LoopKeepsPromise` | `LoopSafety => ConversesAsPromised`: the loop implements `Promise` |

`LoopSafety` is `LoopSpec` without its fairness. The inductive invariant `TurnInv` says, for
each node, what the state may be: as the last turn left it until the merge, then one of
`Merged(settled, turn.update)`, and from an answer on the state that answer left. The tools
keep it because a chain of reroutes stays within `Hops`, the least set that holds the fault
at hand and is closed under `check_combination`'s result (`HopsBegin`, `HopsFollow`,
`HopsOnward`), and because a position does not change what the next one is computed from
(`NextUnmetFromAnywhere`). `Budget` bounds the nodes a turn has run at each node by
`6 * turn.iter + n`: one tool and one reroute after it cost six nodes, and a second reroute
needs a second tool, since the cached combination was computed for the fault just left.
The limit of 8 nodes a tool, and two over, is therefore never reached, for any `MaxIter`.
`AnswerInv` carries the answer from the node that found it to the one that says it; that
the engine may be asked twice in between is `ReassessTwice` of the checklist. The
refinement maps every node but `phrase`, a failing provider and the guard's early ends to a
stutter, and those to `Answered`, `Lost` or `Unresolved`.

### The service

`ServiceProofs` proves for every set of sessions, requests and any number of threads that
satisfy `RequestsAssumption`:

| theorem | states |
|---|---|
| `ServiceKeepsConversations` | `ServiceSpec => TurnsAreOneConversation`: the service implements `Sessions` |

The inductive invariant `ServiceInv` has five parts. `OneHolds`: the lock is held by
exactly the request in a critical section. `RightPlace`: a request is only where its kind
may be. `Attached`: ids and session objects correspond, and a request works on the object
its id leads to unless that was deleted meanwhile (`late`); this is where the check made
under the lock in `get_or_create` (`absent`) must still be true when the session is made.
`InOrder`: the session's last answer is the last entry of its transcript, except while its
turn is between the two, and a turn in the lock has heard the last entry. The refinement
needs all of them: an answer is the next entry *in the light of the one before* only by
`InOrder`, and only lands in its own session's log by `Attached`. `Transitions`,
`LookupStep` and `TalkStep` say once, for all sixteen actions, where a request goes, what
happens to the lookup and what is said; the parts of the invariant cite those. The number
of steps a turn takes, and where it gives the lock back, is thereby shown not to matter.

### The bar

`BarProofs` proves, from the same assumption and on top of `ServiceInv`:

| theorem | states |
|---|---|
| `BarComesToRest` | `ServiceSpec => []BarSettles` |
| `SwapsKeepAttribution` | `ServiceSpec => SwapKeepsAttribution` |
| `TurnsAreJudgedOnTheirBar` | `ServiceSpec => TurnJudgedOnItsBar` |

The bar is written without the lock, so the invariant `BarInv` cannot lean on it. It says
that where no two changes of a bar overlapped at most one is under way (`OneChanges`), how
far that one has got at each of its places (`Midway`), that every other session object has
its config from the loco the fault is attributed to (`Apart`), and that a turn which
brought a bar still has that session and that bar when it comes back (`KeepsSession`,
`KeepsBar`). `WriterChanges` and `OtherBarsKept` reduce each of the sixteen actions to the
one object it may write. The proof needs of a request what the bodies of the endpoints
allow: only a turn or a PUT brings a bar, of one loco or two, and only a turn states a
configuration (`LocosRequest`, `DiagnoseRequest`); `RequestsAssumption` says so.

### Only model-checked

Liveness: `TurnEnds`, `GuidanceEnds` and `EveryRequestAnswered`, which is out of the prover's
reach. Of `TurnEnds` the proofs give the safety half: a turn runs at most `8 * (MaxIter + 2)`
nodes (`StaysWithinLimits`). Every safety and action property of a passing run is a theorem.
The seven statements of section 4 are false; each run shows a counterexample.

## 6. Not modelled

* **Which words mean what.** Which aliases and KB phrases a text holds, and outside which
  negations, is decided by regular expressions (`engine/matcher.py`, the tables of
  `llm/parse.py`). It is an input of `Intake`, any combination of it; the choice among the
  matches, and everything after it, is modelled.
* **Assembly of prompts, removal of fault-id prefixes from claimed steps, folding of stray
  facts** (`llm/parse.py`): text to text, before the validation that is modelled.
* **Phrasing** (`llm/phrase.py`). It turns a terminal into words, checks the wording
  against lists of regular expressions, and on a violation or an error says the KB's own
  text. It reads and changes no state, and its one decision restates its guard: a property
  of it would be the list of expressions once more. What a reader should know: an
  instruction to reset is looked for only in the wording of a refusal.
* **Overlapping changes of one session's bar.** They are in the model, but the properties
  of the bar except them (`overlapped`): the code takes no lock there, so they do not hold.
  A swap between the two assignments of a `PUT` (rows, then attribution) reverses the rows
  before the fault is attributed, and leaves it on the other loco. One client issues one
  request at a time; two clients of one session can meet it.
* `isolation_before_contact`: the code has no evaluator for it and no fault file uses it.
* **Providers, client, demo, evaluation**: input and output only. The models take from the
  providers that an answer is arbitrary and may fail.
* The fault files beyond the eleven excerpts: the same grammar, more text.

## 7. Plan

1. An instance of the loop with the rb axis (the snapshot of `engine/state.py` leaves it
   out; `SaysTheEnginesAnswer` is proved for such a knowledge base too, so the run would
   show the scenarios rather than decide the question).
2. The hazards without a property, where the model has the state for one: facts stated for
   one occurrence and read at the next (`engine/gates.py:187`).
3. That `Intake` hands the loop only messages the loop's theorems assume, as one composed
   statement instead of the two that meet at `Messages`.
