---------------------------- MODULE Conversation ----------------------------
(***************************************************************************)
(* What one message may come to, with the agent's tool loop hidden: the      *)
(* states it may be answered from, and how the answer is put.  These are the *)
(* terms of Promise, which Copilot keeps whatever the models choose.         *)
(***************************************************************************)
EXTENDS Diagnosis

Unanswerable == {[NoTerminal EXCEPT !.kind = "clarify", !.text = "clarify?"],
                 [NoTerminal EXCEPT !.kind = "defer_to_TLC", !.text = "out_of_scope"]}

\* StateUpdate.brings_news: does the message change anything the engine acts on?
BringsNews(u, d) ==
    \/ u.fault \notin {None, d.fault}
    \/ u.confirmed # Unstated /\ (u.confirmed = "yes") # d.confirmed
    \/ \E a \in Axes : u.loco[a] # Unstated
    \/ \E k \in Keys : u.facts[k] # Unstated
    \/ u.tellsRelays \/ u.claimed # {} \/ u.intent # None \/ u.clearIntent \/ u.presenting \/ u.denies

\* Mutant: any answer given a second time is taken for a check passed over.
SaidAgain(t, told, news) == ~news /\ ~t.doNow /\ Signature(t) = Signature(told)

\* Saying terminal t: a check asked a second time, with nothing new in between, is
\* put as the next action instead (phrase_node's backstop).
AskedAgain(t, told, news) ==
    ~news /\ t.kind = "ask_step" /\ ~t.doNow /\ Signature(t) = Signature(told)

Deliver(d, t, told, news) ==
    IF AskedAgain(t, told, news)
    THEN Answer([d EXCEPT !.declined = @ \cup {t.step}], [t EXCEPT !.doNow = TRUE])
    ELSE Answer(d, t)

NextUnmet(d) == IF Missing(d, KB[d.fault]) = {} THEN None
                ELSE KB[d.fault].steps[First(Missing(d, KB[d.fault]))].id

\* check_combination's result: a combination rule is read against the relays reported.
Combined(d) == IF d.fault # None /\ ComboHits(d, KB[d.fault]) # {}
               THEN KB[d.fault].combos[First(ComboHits(d, KB[d.fault]))].to ELSE d.fault

At(d, x) == [d EXCEPT !.fault = x]

\* The faults its result leads to, one after another: the target of a reroute may have
\* combinations of its own.
Hops(d) ==
    LET next   == [x \in DOMAIN KB |-> Combined(At(d, x))]
        closed == {S \in SUBSET DOMAIN KB : \A x \in S : next[x] \in S \/ next[x] \notin DOMAIN KB}
    IN {x \in DOMAIN KB : \A S \in closed : d.fault \in S => x \in S}

\* What the tools may leave behind of state m: the procedure check_combination led to, and
\* the position in the checklist of the last one that diff_completed_steps was run on.
Worked(m) ==
    {At(m, x) : x \in Hops(m)}
    \cup UNION {{[At(m, x) EXCEPT !.stuckAt = NextUnmet(At(m, y))] : x \in Hops(At(m, y))} : y \in Hops(m)}

\* The states a message may lead to before it is answered.
Merged(d, u) == Worked(ResolveCombination(UpdateState(d, u)))

DifferentProcedure(d) == Terminal("defer_to_TLC", d, None, "different_procedure")

About(u, d) == Concerns(u, d.fault)

\* What may come of an answered message: the engine's answer to one of those states (an
\* overview is never a repeat), or, where the relays name a procedure that is not
\* encoded, the referral to TLC.
Outcome(o, d, told, u) ==
    \E m \in Merged(d, u) :
       \/ \E news \in {TRUE, BringsNews(u, d)} :
             o = LET r == Reassess(m) IN Deliver(r.diag, r.terminal, told, news)
       \/ Combined(m) \notin DOMAIN KB \cup {None} /\ o = Answer(m, DifferentProcedure(m))
=============================================================================
