---------------------------- MODULE AnswerStream ----------------------------
(***************************************************************************)
(* A streamed answer on its way from the router to the client: the loop of *)
(* stream_generator (gateway/main.py), StreamingOutputFilter               *)
(* (gateway/policy/guardrails.py) and VaultRestorer (gateway/policy/       *)
(* pii.py), the text that is then billed, and the one that is cached.      *)
(*                                                                         *)
(* The generator is suspended wherever it yields or awaits, so a client    *)
(* that leaves and a backend that fails can end it between any two steps.  *)
(***************************************************************************)
EXTENDS AnswerText

CONSTANTS
    MaxLen,     \* bound on the length of the model's text
    MaxChunk,   \* bound on the length of a piece of it
    PlainOnly,  \* whether the model's texts are Plain
    NoText      \* no text was billed, or cached

ASSUME StreamAssumption ==
    /\ MaxLen \in Nat
    /\ MaxChunk \in Nat
    /\ PlainOnly \in BOOLEAN
    /\ NoText \notin Seq(Chars \cup {Redacted})

VARIABLES
    received,  \* history: what the backend has sent
    filter,    \* StreamingOutputFilter: _pending, _released, leaked
    vault,     \* whether the request's vault mapping has anything in it
    held,      \* VaultRestorer._pending
    sent,      \* what was yielded to the client
    stage,     \* where stream_generator is
    billed,    \* the text whose tokens were billed
    saved      \* the text that went into the prompt cache

vars == <<received, filter, vault, held, sent, stage, billed, saved>>

Stages == {"reading", "finished", "closing", "stopped", "settled", "broken", "abandoned"}

Init ==
    /\ received = <<>>
    /\ filter = [pending |-> <<>>, released |-> <<>>, leaked |-> FALSE]
    /\ vault \in BOOLEAN
    /\ held = <<>>
    /\ sent = <<>>
    /\ stage = "reading"
    /\ billed = NoText
    /\ saved = NoText

First(text, n) == SubSeq(text, 1, n)
Rest(text, n)  == SubSeq(text, n + 1, Len(text))

-----------------------------------------------------------------------------
(* StreamingOutputFilter *)

\* The filter after a step of its own, and what that step lets through.
Result(f, text) == [filter |-> f, safe |-> text]

Silent(f) == Result([f EXCEPT !.pending = <<>>, !.leaked = TRUE], <<>>)

Release(f, text, n) ==
    LET safe == Redact(First(text, n))
    IN Result([f EXCEPT !.pending = Rest(text, n), !.released = @ \o safe], safe)

\* Mutant: leaks are looked for in what has not been released.
FeedPendingOnly(f, delta) ==
    LET text == f.pending \o delta
    IN IF f.leaked \/ Leaks(text) THEN Silent(f)
       ELSE Release(f, text, EmitBoundary(text))

Feed(f, delta) ==
    LET text == f.pending \o delta
    IN IF f.leaked \/ Leaks(f.released \o text) THEN Silent(f)
       ELSE Release(f, text, EmitBoundary(text))

Flush(f) ==
    IF f.leaked \/ Leaks(f.released \o f.pending) THEN Silent(f)
    ELSE Release(f, f.pending, Len(f.pending))

\* StreamingOutputFilter.text
Text(f) == f.released \o f.pending

-----------------------------------------------------------------------------
(* VaultRestorer *)

\* Mutant: what was held is not put back in front.
ReadyAlone(text) == IF vault THEN Restore(First(text, Boundary(text))) ELSE text

Ready(text) ==
    IF vault THEN Restore(First(held \o text, Boundary(held \o text))) ELSE text

HeldAfter(text) ==
    IF vault THEN Rest(held \o text, Boundary(held \o text)) ELSE held

\* Mutant: flush is not called.
ReadyUnflushed(text) == Ready(text)

\* feed and then flush
ReadyWhole(text) == Ready(text) \o Restore(HeldAfter(text))

-----------------------------------------------------------------------------
(* stream_generator *)

Pieces == UNION {[1..n -> Chars] : n \in 1..MaxChunk}

Receive(piece) ==
    /\ stage = "reading"
    /\ Len(received) + Len(piece) <= MaxLen
    /\ PlainOnly => Plain(received \o piece)
    /\ received' = received \o piece

\* A piece completes a leak: the client is told, and the loop is left.
Stop(piece) ==
    LET fed == Feed(filter, piece) IN
    /\ Receive(piece)
    /\ fed.filter.leaked
    /\ filter' = fed.filter
    /\ stage' = "stopped"
    /\ UNCHANGED <<vault, held, sent, billed, saved>>

Chunk(piece) ==
    LET fed == Feed(filter, piece) IN
    /\ Receive(piece)
    /\ ~fed.filter.leaked
    /\ filter' = fed.filter
    /\ sent' = sent \o Ready(fed.safe)
    /\ held' = HeldAfter(fed.safe)
    /\ stage' = "reading"
    /\ UNCHANGED <<vault, billed, saved>>

\* The piece, which may be empty, that carries a finish_reason.
LastChunk(piece) ==
    LET fed     == IF piece = <<>> THEN Result(filter, <<>>) ELSE Feed(filter, piece)
        flushed == Flush(fed.filter)
    IN /\ Receive(piece)
       /\ ~fed.filter.leaked
       /\ filter' = flushed.filter
       /\ sent' = sent \o ReadyWhole(fed.safe \o flushed.safe)
       /\ held' = <<>>
       /\ stage' = "finished"
       /\ UNCHANGED <<vault, billed, saved>>

\* Mutant: a stream without a finish_reason keeps what it holds.
NoTail == <<>>

\* What is still held when the backend's stream has ended.
Leftover == ReadyWhole(Flush(filter).safe)

DrainTail ==
    /\ stage \in {"reading", "finished"}
    /\ Leftover # <<>>
    /\ filter' = Flush(filter).filter
    /\ sent' = sent \o Leftover
    /\ held' = <<>>
    /\ stage' = "closing"
    /\ UNCHANGED <<received, vault, billed, saved>>

\* Mutant: a stopped stream is cached like any other.
SavesAll == TRUE

\* The router fails over until a stream has a chunk, so there is a last one.
Saves == stage # "stopped"

\* Mutant: the restored text goes into the cache.
SavedRestored == sent

SavedText == Text(filter)

\* Record the spend, then cache the answer (a ledger that raises here is in
\* BudgetPipeline).
Settle ==
    /\ \/ stage \in {"reading", "finished"} /\ Leftover = <<>>
       \/ stage \in {"closing", "stopped"}
    /\ billed' = Text(filter)
    /\ saved' = IF Saves THEN SavedText ELSE NoText
    /\ stage' = "settled"
    /\ UNCHANGED <<received, filter, vault, held, sent>>

\* An exception, a timeout, or the client has left: the spend is recorded by the
\* except or the finally clause.  accumulated_text is still empty.
Break ==
    /\ stage \in {"reading", "finished", "closing", "stopped"}
    /\ stage' = IF stage \in {"finished", "closing"} THEN "abandoned" ELSE "broken"
    /\ billed' = <<>>
    /\ UNCHANGED <<received, filter, vault, held, sent, saved>>

Next ==
    \/ \E piece \in Pieces : Chunk(piece) \/ Stop(piece)
    \/ \E piece \in Pieces \cup {<<>>} : LastChunk(piece)
    \/ DrainTail
    \/ Settle
    \/ Break

Spec == Init /\ [][Next]_vars

-----------------------------------------------------------------------------
(* Correctness *)

\* The type invariant; what is cached or billed has no restored value in it.
TypeOK ==
    LET Masked == Seq(Chars \cup {Redacted}) IN
    /\ received \in Seq(Chars)
    /\ filter \in [pending : Seq(Chars), released : Masked, leaked : BOOLEAN]
    /\ vault \in BOOLEAN
    /\ held \in Masked
    /\ sent \in Seq(Chars \cup {Redacted, Restored})
    /\ stage \in Stages
    /\ {billed, saved} \subseteq Masked \cup {NoText}

\* However the backend cuts its text into pieces, the client's text is at
\* every moment a beginning of what it would be shown of an answer that is not
\* streamed, nothing is taken back, and a stream that is complete has shown it
\* all: "the client's text identical to the non-streaming answer" (main.py).
Show(mapping, text) == IF mapping THEN Restore(Redact(text)) ELSE Redact(text)

WholeView == INSTANCE WholeAnswer WITH
    Texts     <- Seq(Chars),
    Shown     <- Show,
    generated <- received,
    seen      <- sent,
    complete  <- stage \in {"finished", "closing", "settled", "abandoned"} /\ ~filter.leaked

ImplementsWholeAnswer == WholeView!WholeSpec

\* A leaked phrase never reaches the client whole, wherever it was cut and
\* whatever of it was already released, and its answer is not cached
\* (StreamingOutputFilter.feed and flush).
NoLeakPassed ==
    /\ ~Leaks(sent)
    /\ saved # NoText => ~filter.leaked /\ ~Leaks(saved)

\* A later caller who is served from the cache is shown what this one was: the
\* entry is redacted but not restored, and restoring it at once or as it
\* streamed by comes to the same (main.py, the end of stream_generator).
ReplayIsTheSame ==
    saved # NoText =>
        /\ Restored \notin {saved[i] : i \in 1..Len(saved)}
        /\ sent = IF vault THEN Restore(saved) ELSE saved

-----------------------------------------------------------------------------
(* What comments of the code say, and the runs refute *)

\* guardrails.py: text is "everything seen so far, redacted, for billing and
\* cache decisions".  A stream that is cut short is billed for nothing.
SentIsBilled == billed # NoText => (sent # <<>> => billed # <<>>)
=============================================================================
