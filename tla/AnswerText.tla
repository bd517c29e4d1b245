----------------------------- MODULE AnswerText -----------------------------
(***************************************************************************)
(* What the output filters do to a text (gateway/policy/guardrails.py,     *)
(* gateway/policy/pii.py), as operators on sequences of characters.        *)
(*                                                                         *)
(* The patterns are reduced to one of each kind, as small as what splits   *)
(* them needs: a secret is a word that begins with the two characters of a *)
(* starter and is long enough, a leaked instruction is a phrase of three   *)
(* characters, a placeholder is a name in brackets or a bare one.  Lengths *)
(* keep the order they have in the code: the held back end is one shorter  *)
(* than a starter and shorter than a phrase.                               *)
(***************************************************************************)
EXTENDS Integers, Sequences, FiniteSetsExt

CONSTANTS
    MinBody,      \* characters a secret has at least after its starter
    MinHoldback,  \* _MIN_HOLDBACK, the length of a starter less one
    MaxSpan,      \* _MAX_SECRET_SPAN
    MaxTokenLen   \* VaultRestorer.MAX_TOKEN_LEN

\* A held back end of at least a starter less one, and room for a placeholder
\* that lacks only its bracket.
ASSUME TextAssumption ==
    /\ MinBody \in Nat
    /\ MinHoldback \in Nat \ {0}
    /\ MaxSpan \in Nat
    /\ MaxTokenLen \in Nat \ {0, 1}

\* "s", "k" make a starter; they and the name "e" are word characters, "[",
\* "]" and "!" are not.
Chars == {"s", "k", "e", "[", "]", "!"}
Word  == {"s", "k", "e"}

\* What takes the place of a secret, and of a placeholder.
Redacted == "R"
Restored == "V"

Nothing == ""
Kept(marks) == {i \in DOMAIN marks : marks[i] # Nothing}

\* The n-th mark that stays, the one with n - 1 before it.  This is SelectSeq,
\* written without its recursion so that it can be reasoned about.
Pick(marks, n) ==
    CHOOSE i \in Kept(marks) : Cardinality({j \in Kept(marks) : j < i}) = n - 1

Marked(marks) == [n \in 1..Cardinality(Kept(marks)) |-> marks[Pick(marks, n)]]

Reads(text, i, chars) ==
    i + Len(chars) - 1 <= Len(text) /\ SubSeq(text, i, i + Len(chars) - 1) = chars

At(text, i) == IF i \in 1..Len(text) THEN text[i] ELSE Nothing

IsWord(text, i) == At(text, i) \in Word

-----------------------------------------------------------------------------
(* GuardrailsPipeline *)

Starter(text, i) == Reads(text, i, <<"s", "k">>)

WordEnd(text, i) == Max({j \in i..Len(text) : \A n \in i..j : IsWord(text, n)})

\* pattern.match at i: it does not see what stands before.
Matches(text, i) == Starter(text, i) /\ WordEnd(text, i) - i + 1 >= 2 + MinBody

IsSecret(text, i) == ~IsWord(text, i - 1) /\ Matches(text, i)

InSecret(text, j) == \E i \in 1..j : IsSecret(text, i) /\ j <= WordEnd(text, i)

\* sanitize_completion
Redact(text) ==
    Marked([j \in 1..Len(text) |-> IF IsSecret(text, j) THEN Redacted
                                   ELSE IF InSecret(text, j) THEN Nothing
                                   ELSE text[j]])

\* validate_completion raises.
Leaks(text) == \E i \in 1..Len(text) : Reads(text, i, <<"!", "!", "!">>)

\* Mutant: whatever has no starter in it is released to its last character.
NoHoldback(text) == Len(text)

Releasable(text) == Max({0, Len(text) - MinHoldback})

\* Mutant: a secret counts as complete when it is long enough.
Whole(text, i) == Matches(text, i)

\* The secret that starts at i has ended, and would be released whole.
Complete(text, i) ==
    /\ Matches(text, i)
    /\ WordEnd(text, i) < Len(text)
    /\ WordEnd(text, i) <= Releasable(text)

EmitBoundary(text) ==
    LET growing == {i \in 1..Len(text) : /\ Starter(text, i)
                                         /\ i > Len(text) - MaxSpan
                                         /\ i <= Releasable(text)
                                         /\ ~Complete(text, i)}
    IN IF growing = {} THEN Releasable(text) ELSE Min(growing) - 1

-----------------------------------------------------------------------------
(* PiiVault.restore_text and VaultRestorer._boundary *)

Bracketed(text, i) == i >= 1 /\ Reads(text, i, <<"[", "e", "]">>)

InBracketed(text, j) == \E i \in (j - 2)..j : Bracketed(text, i)

Bare(text, i) ==
    text[i] = "e" /\ ~IsWord(text, i - 1) /\ ~IsWord(text, i + 1) /\ ~InBracketed(text, i)

Restore(text) ==
    Marked([j \in 1..Len(text) |-> IF Bracketed(text, j) \/ Bare(text, j) THEN Restored
                                   ELSE IF InBracketed(text, j) THEN Nothing
                                   ELSE text[j]])

\* Mutant: an open bracket is not waited for.
NoBoundary(text) == Len(text)

\* A redaction mark is itself a pair of brackets.
Boundary(text) ==
    LET opened == {i \in 1..Len(text) : text[i] = "["}
        last   == Max(opened)
    IN IF \/ opened = {}
          \/ \E j \in last..Len(text) : text[j] \in {"]", Redacted}
          \/ Len(text) - last + 1 > MaxTokenLen
       THEN Len(text)
       ELSE last - 1

-----------------------------------------------------------------------------

\* The texts on which the filters are meant to agree with their whole-string
\* forms: no starter inside a word, no secret that with the held back end is as
\* long as the span that is watched, no name outside brackets.
Plain(text) ==
    \A i \in 1..Len(text) :
        /\ Starter(text, i) => ~IsWord(text, i - 1) /\ WordEnd(text, i) - i + MinHoldback < MaxSpan
        /\ text[i] = "e" => At(text, i - 1) = "[" /\ At(text, i + 1) \in {"]", Nothing}
=============================================================================
