-------------------------------- MODULE Intake --------------------------------
(***************************************************************************)
(* From the pilot's words to the update the engine merges (llm/parse.py,    *)
(* engine/matcher.py).  A message is what its text matches literally, alias *)
(* and KB phrases, and what the language model reads into it, whatever that *)
(* is.  The parser settles which fault it is about, and hands an update to  *)
(* the engine or asks what the pilot means.                                 *)
(***************************************************************************)
EXTENDS Conversation, Integers

CONSTANTS Precedence,  \* fault id -> its alias precedence
          Inputs       \* the messages: what the text matches and what the model reads

VARIABLES reply,         \* what answered the last message: the engine, a question, the check again
          clarifyAsked,  \* clarifications since a message was last understood
          heard          \* what the pilot has said, for the properties only

intakeVars == <<diag, last, presented, reply, clarifyAsked, heard>>

IntakePrecedence == -2

\* ParseOutput, with the confidence only as far as it reaches CLARIFY_THRESHOLD, and
\* before it what the text itself matches: alias and phrases, no model involved.
Silence ==
    [exact |-> None, hits |-> {}, phrases |-> [x \in DOMAIN KB |-> [k \in Keys |-> Unstated]],
     guess |-> None, sure |-> FALSE, outside |-> FALSE, confirms |-> Unstated, presents |-> FALSE,
     recurred |-> FALSE, abnormality |-> Unstated, resetEarlier |-> Unstated, resolved |-> Unstated,
     claimed |-> {}, facts |-> [k \in Keys |-> Unstated], tellsRelays |-> FALSE, relays |-> {},
     intent |-> None, denies |-> FALSE, detail |-> FALSE, loco |-> [a \in Axes |-> Unstated]]

Input ==
    [exact : DOMAIN KB \cup {None}, hits : SUBSET DOMAIN KB, phrases : [DOMAIN KB -> [Keys -> Values]],
     guess : STRING, sure : BOOLEAN, outside : BOOLEAN, confirms : YesNo, presents : BOOLEAN,
     recurred : BOOLEAN, abnormality : YesNo, resetEarlier : YesNo, resolved : YesNo,
     claimed : SUBSET STRING, facts : [Keys -> Values], tellsRelays : BOOLEAN, relays : SUBSET STRING,
     intent : STRING, denies : BOOLEAN, detail : BOOLEAN, loco : [Axes -> Values]]

\* The facts that phrases of the KB may set, and every history fact a fault consults: the vocabulary the model may state facts in.
PhraseKeys(f)  == f.phrases \cup {f.routes[n].fact : n \in DOMAIN f.routes}
HistoryKeys(f) ==
    (UNION {({s.abnormality} \ {Abnormality}) \cup Conditions(s) \cup {m.fact : m \in s.implies}
             \cup ({s.elicits, s.isolation, s.finding} \ {None}) \cup s.gate.pre
             \cup (IF s.gate.type = "reset_limit" THEN {s.gate.needs, s.gate.recurrence} ELSE {}) :
           s \in {f.steps[i] : i \in Indices(f)}})
    \cup {f.defers[n].fact : n \in DOMAIN f.defers} \cup PhraseKeys(f)

ASSUME InputsAssumption ==
    /\ Inputs \subseteq Input
    /\ Precedence \in [DOMAIN KB -> Int]
    /\ \A m \in Inputs, x \in DOMAIN KB, k \in Keys : m.phrases[x][k] # Unstated => k \in PhraseKeys(KB[x])
    /\ \A x \in DOMAIN KB : HistoryKeys(KB[x]) \cap Bookkeeping = {}

-----------------------------------------------------------------------------
(* Which fault the message is about.                                        *)

\* The whole text, or else the one fault of the highest precedence it mentions.
MatchAlias(m) ==
    LET top == {x \in m.hits : \A y \in m.hits : Precedence[y] <= Precedence[x]}
    IN CASE m.exact # None -> m.exact
         [] m.exact = None /\ \E x \in top : top = {x} -> CHOOSE x \in top : TRUE
         [] OTHER -> None

IsHub(x) == x # None /\ Precedence[x] <= IntakePrecedence

\* The model's guess counts only if it is a fault of the KB.
Guess(m) == IF m.guess \in DOMAIN KB THEN m.guess ELSE None

\* What the KB's own phrases in the text say of a fault, no model involved.
PhraseFacts(x, m) == m.phrases[x]

\* A hub's alias a may be the wording of an answer inside the procedure x at hand.
AnswersWithin(x, a, m) ==
    /\ IsHub(a) /\ x \notin {None, a}
    /\ \E k \in Keys : PhraseFacts(x, m)[k] # Unstated

\* It is a generic entry phrase: a specific fault the model is sure of goes first.
YieldsToGuess(x, a, m) ==
    /\ m.sure /\ IsHub(a) /\ ~AnswersWithin(x, a, m)
    /\ Guess(m) \notin {None, a} /\ Precedence[Guess(m)] > Precedence[a]

\* Mutant: the hub's alias is looked at whatever it answers.
AliasTakesOver(x, m) ==
    LET a == MatchAlias(m) IN IF YieldsToGuess(x, a, m) THEN None ELSE a

Alias(x, m) ==
    LET a == MatchAlias(m) IN IF AnswersWithin(x, a, m) \/ YieldsToGuess(x, a, m) THEN None ELSE a

\* With a fault matched only a denial that names no other fault is not understood.
Understood(x, m) ==
    \/ Alias(x, m) # None
    \/ x # None /\ ~(m.confirms = "no" /\ Guess(m) = None)
    \/ x = None /\ Guess(m) # None /\ m.sure

\* alias > matched fault > guess; within a family the resolved identity is kept.
Subject(x, m) ==
    LET a == Alias(x, m) IN
    CASE a # None /\ SameFamily(a, x)  -> x
      [] a # None /\ ~SameFamily(a, x) -> a
      [] a = None /\ x # None /\ m.confirms = "no" /\ ~SameFamily(Guess(m), x) -> Guess(m)
      [] a = None /\ x = None          -> Guess(m)
      [] OTHER -> x

\* Mutant: a guess is left to the engine's default, which trusts it.
CertaintyTrusted(x, m) ==
    IF Alias(x, m) # None \/ m.confirms = "yes" THEN "yes" ELSE Unstated

\* fault_confirmed: the text is certain, a guess is not, the matched fault only by a yes.
Certainty(x, m) ==
    CASE Alias(x, m) # None -> "yes"
      [] Alias(x, m) = None /\ Subject(x, m) # x -> "no"
      [] OTHER -> IF m.confirms = "yes" THEN "yes" ELSE Unstated

\* Mutant: only the model says whether the fault acts now.
PresentingAsRead(x, m) == m.presents /\ m.sure /\ SameFamily(Guess(m), Subject(x, m))

\* Every alias is a presenting sign; otherwise a sure guess that says so.
Presenting(x, m) ==
    \/ Alias(x, m) # None
    \/ m.presents /\ m.sure /\ SameFamily(m.guess, Subject(x, m))

-----------------------------------------------------------------------------
(* What the message says about it.                                          *)

\* The keys of a fault and of those it may be rerouted to or from.
FamilyKeys == [y \in DOMAIN KB |-> UNION {HistoryKeys(KB[x]) : x \in {z \in DOMAIN KB : SameFamily(z, y)}}]

\* Later sources overwrite earlier ones: the KB's own phrases, the named fields of the
\* reading, then the facts of the family's vocabulary.
History(y, m) ==
    [k \in Keys |->
        CASE k \in FamilyKeys[y] /\ m.facts[k] # Unstated -> m.facts[k]
          [] ~(k \in FamilyKeys[y] /\ m.facts[k] # Unstated) ->
               CASE k = FaultRecurred /\ m.recurred                           -> "yes"
                 [] k = FaultResolved /\ m.resolved # Unstated                -> m.resolved
                 [] k = ResetHistoryKey(KB[y]) /\ m.resetEarlier # Unstated   -> m.resetEarlier
                 [] k = Abnormality /\ m.abnormality # Unstated               -> m.abnormality
                 [] OTHER -> PhraseFacts(y, m)[k]]

\* The hub's own drill, if claimed, is simply done once the hub has yielded.
Claimed(x, m) ==
    LET a == MatchAlias(m) IN m.claimed \ (IF YieldsToGuess(x, a, m) THEN StepIds(KB[a]) ELSE {})

\* Mutant: the fault is named again although it has not changed.
ParsedByName(x, m) ==
    [fault |-> Subject(x, m), confirmed |-> Certainty(x, m), claimed |-> Claimed(x, m),
     facts |-> History(Subject(x, m), m), tellsRelays |-> m.tellsRelays, relays |-> m.relays,
     intent |-> m.intent, clearIntent |-> FALSE, presenting |-> Presenting(x, m),
     denies |-> m.denies, loco |-> m.loco]

\* parse_turn's StateUpdate for a message that is understood.
Parsed(x, m) ==
    LET y == Subject(x, m) IN
    [fault |-> IF y = x THEN None ELSE y,
     confirmed |-> Certainty(x, m), claimed |-> Claimed(x, m), facts |-> History(y, m),
     tellsRelays |-> m.tellsRelays, relays |-> m.relays, intent |-> m.intent, clearIntent |-> FALSE,
     presenting |-> Presenting(x, m), denies |-> m.denies, loco |-> m.loco]

HandOvers ==
    UNION {{Parsed(x, m) : m \in {i \in Inputs : Understood(x, i)}} : x \in DOMAIN KB \cup {None}}

\* The messages of the engine are those of the parser's updates that it may trust; that
\* all of them are is for HandsOverWellParsed to say.
Trusted == {u \in HandOvers : u \in Update /\ WellParsed(u)}

ASSUME ParserAssumption == Messages = Trusted

-----------------------------------------------------------------------------
(* What the pilot has said, kept beside the program for the properties.      *)

\* The one fault the text names, unless it is only a hub.
NamedInText(m) == IF IsHub(MatchAlias(m)) THEN None ELSE MatchAlias(m)

\* A "no" that names no other fault of the text's, nor one of the family.
Denies(x, m) == x # None /\ m.confirms = "no" /\ ~SameFamily(Guess(m), x)

Hearing(x, m) ==
    LET named == NamedInText(m) IN
    [named   |-> named,
     answers |-> IF AnswersWithin(x, MatchAlias(m), m) /\ m.confirms # "no" THEN x ELSE None,
     vouched |-> heard.vouched \cup ({MatchAlias(m)} \ {None}) \cup (IF m.confirms = "yes" THEN {x} \ {None} ELSE {}),
     denied  |-> CASE named = None /\ Denies(x, m) -> x
                   [] named # None \/ m.confirms = "yes" \/ Guess(m) = heard.denied -> None
                   [] OTHER -> heard.denied,
     asked   |-> reply' = "clarify" \/ (heard.asked /\ reply' = "out_of_scope")]

-----------------------------------------------------------------------------
IntakeInit ==
    /\ Init
    /\ reply = None /\ clarifyAsked = 0
    /\ heard = [named |-> None, answers |-> None, vouched |-> {}, denied |-> None, asked |-> FALSE]

\* The pilot takes the offer of the exact list of the check they were asked for, and
\* says nothing else: it is shown again, and the engine is not asked.
AsksForTheList(m) ==
    /\ m.detail /\ Understood(diag.fault, m) /\ ~BringsNews(Parsed(diag.fault, m), diag)
    /\ reply \in {"engine", "list"} /\ last.kind = "ask_step"

Understand(m) ==
    /\ Understood(diag.fault, m) /\ ~AsksForTheList(m)
    /\ RunTurn(Parsed(diag.fault, m))
    /\ reply' = "engine" /\ clarifyAsked' = 0
    /\ heard' = Hearing(diag.fault, m)

ShowTheList(m) ==
    /\ AsksForTheList(m)
    /\ reply' = "list" /\ clarifyAsked' = 0
    /\ heard' = Hearing(diag.fault, m)
    /\ UNCHANGED <<diag, last, presented>>

\* The model named a problem outside the list, or said that it is one.
OutOfScope(m) == (m.guess = None /\ m.outside) \/ m.guess \notin DOMAIN KB \cup {None}

\* Mutant: an answer that it is out of scope opens the question again.
NotUnderstoodAfresh(m) ==
    /\ ~Understood(diag.fault, m)
    /\ reply' = IF OutOfScope(m) \/ clarifyAsked >= 1 THEN "out_of_scope" ELSE "clarify"
    /\ clarifyAsked' = IF reply' = "clarify" THEN clarifyAsked + 1 ELSE 0
    /\ heard' = Hearing(diag.fault, m)
    /\ UNCHANGED <<diag, last, presented>>

\* _unresolved: the engine stands still, whatever the message said, and the pilot was
\* last told the reply (last remains what the engine told them).
NotUnderstood(m) ==
    /\ ~Understood(diag.fault, m)
    /\ reply' = IF OutOfScope(m) \/ clarifyAsked >= 1 THEN "out_of_scope" ELSE "clarify"
    /\ clarifyAsked' = IF reply' = "clarify" THEN clarifyAsked + 1 ELSE clarifyAsked
    /\ heard' = Hearing(diag.fault, m)
    /\ UNCHANGED <<diag, last, presented>>

Hear(m) == Understand(m) \/ ShowTheList(m) \/ NotUnderstood(m)

IntakeNext == \E m \in Inputs : Hear(m)

IntakeSpec == IntakeInit /\ [][IntakeNext]_intakeVars

-----------------------------------------------------------------------------
\* The faults under which every message that is understood makes a sound update.
SoundUnder ==
    {x \in DOMAIN KB \cup {None} : \A m \in Inputs :
        Understood(x, m) => /\ Parsed(x, m) \in Update
                            /\ WellParsed(Parsed(x, m))
                            /\ Concerns(Parsed(x, m), x)}

\* Whatever the model reads into whatever text, what reaches the engine is a typed
\* update the engine can trust: it names a fault only outside the family at hand, never
\* says a guess is certain, and cannot touch the reset bookkeeping (parse.py: "the
\* model's output never enters state unvalidated").
HandsOverWellParsed == diag.fault \in SoundUnder

\* The faults of S and those of their families: one that is named keeps the identity
\* already resolved within its family.
Kin(S) == S \cup {y \in DOMAIN KB : \E x \in S \cap DOMAIN KB : SameFamily(x, y)}

\* The faults that those of S are rerouted to, one reroute after another.
LeadsTo(S) ==
    LET closed == {C \in SUBSET DOMAIN KB : \A x \in C : Targets(KB[x]) \cap DOMAIN KB \subseteq C}
    IN {y \in DOMAIN KB : \A C \in closed : S \cap DOMAIN KB \subseteq C => y \in C}

\* "A hard-gated fault must be confirmed by the pilot before any guidance" (parse.py):
\* a procedure with a gate is guided through only if it is one the pilot once named in
\* words the KB knows, or said yes to, or one of that family, or if it was reached from
\* such a one by the reroutes of the KB.  What the model guessed vouches for nothing.
GuidedOnlyIfVouched ==
    (diag.fault # None /\ GatedIndices(KB[diag.fault]) # {} /\ reply = "engine"
        /\ last.kind \notin {"refuse", "confirm_fault"})
    => diag.fault \in LeadsTo(Kin(heard.vouched))

\* A text that names a relay of the KB, after a reset was instructed or is on record, is
\* answered with a refusal under a procedure that resets it, whatever the model makes of
\* the text ("deterministic on an alias hit", parse.py; the backstop, state.py).
AliasedSecondActRefused ==
    [][ /\ heard'.named # None
        /\ PriorReset(diag) \/ InstructsReset(last)
        /\ diag'.fault # None
        /\ \E i \in ResetIndices(Matched') : Matched'.steps[i].gate.recurrence = FaultRecurred
        => last'.kind = "refuse" ]_intakeVars

\* While the pilot is inside a procedure whose own phrases the text matches, the hub whose
\* alias the text also is never takes the conversation over (parse.py, "DJ trips"), unless
\* the pilot denies that procedure: it goes on, or where the KB reroutes it.
HubNeverTakesOver == heard.answers # None => diag.fault \in LeadsTo({heard.answers})

\* The clarifying question is put at most once between two messages that are understood,
\* whatever else was answered in between ("the same question is never asked twice").
NeverAskedTwice == [][ reply' = "clarify" => ~heard.asked ]_intakeVars

-----------------------------------------------------------------------------
(* What the documents say and the code does not keep.                       *)

\* "Pilot says it is NOT that fault: drop it" (parse.py, parse_turn): after the denial
\* the engine does not answer under that fault before the pilot or the model names it.
DeniedFaultIsDropped == reply = "engine" => diag.fault # heard.denied

\* "A re-trip after a valid first reset could be met with a second 'reset once' caution.
\* Now" the recurrence is recorded "in the engine regardless of the parser" (HANDOFF.md):
\* with a reset and a recurrence on record, no later message about the same fault has it
\* reset again.
RetripIsNeverCautioned ==
    [][ PriorReset(diag) /\ diag.facts[FaultRecurred] = "yes" /\ diag'.fault = diag.fault /\ reply' = "engine"
        => ~InstructsReset(last') ]_intakeVars
=============================================================================
