------------------------------ MODULE ParseLine ------------------------------
(***************************************************************************)
(* parse_line of src/src/util.c: the command line is cut into tokens in    *)
(* place.  Tokens are positions in the line; the end of each is a NUL that *)
(* is written over the character after it.  One step is one turn of the    *)
(* loop.  The result is compared with a definition of tokens on its own.   *)
(***************************************************************************)
EXTENDS Naturals, Sequences, SequencesExt

CONSTANT MaxLine      \* characters in a line

ASSUME MaxLineAssumption == MaxLine \in Nat

Letter == "x"         \* any character with no meaning of its own
Space == " "          \* blank or tab
Newline == "n"        \* line feed or carriage return
Quote == "q"
Apostrophe == "a"
NUL == "0"

Chars == {Letter, Space, Newline, Quote, Apostrophe}
White == {Space, Newline, NUL}
Pending == "s_token_pending"
Plain == "s_parse_plain_token"
Quoted == "s_parse_quoted_token"
Aposd == "s_parse_aposd_token"

VARIABLES
    text,       \* the line as it was read
    line,       \* the line as it stands, its NUL included
    pos,        \* the pointer that walks the line
    state, start, tokens, term,     \* parse_line's locals
    ret         \* what it returned, or "none"

parse_vars == <<text, line, pos, state, start, tokens, term, ret>>
-------------------------------------------------------------------------------
ParseInit ==
    /\ text \in BoundedSeq(Chars, MaxLine)
    /\ line = Append(text, NUL)
    /\ pos = 1
    /\ state = Pending
    /\ start = 1
    /\ tokens = <<>>
    /\ term = FALSE
    /\ ret = "none"

(* The end of a token of the given kind, and what may not stand in one.     *)
Ends(s, ch) == \/ s = Plain /\ ch \in White
               \/ s = Quoted /\ ch = Quote
               \/ s = Aposd /\ ch = Apostrophe

Forbidden(s, ch) == \/ s = Plain /\ ch \in {Quote, Apostrophe}
                    \/ s \in {Quoted, Aposd} /\ ch = NUL

Begin(ch) ==
    /\ state = Pending
    /\ state' = CASE ch = Quote -> Quoted [] ch = Apostrophe -> Aposd
                  [] ch \in White -> Pending [] OTHER -> Plain
    /\ start' = IF ch \in White THEN start
                ELSE IF ch \in {Quote, Apostrophe} THEN pos + 1 ELSE pos
    /\ UNCHANGED <<line, tokens>>

(* Fault: the token is not terminated.                                      *)
End_unterminated(ch) ==
    /\ Ends(state, ch)
    /\ tokens' = Append(tokens, start)
    /\ state' = Pending
    /\ UNCHANGED <<start, line>>

End(ch) ==
    /\ Ends(state, ch)
    /\ line' = [line EXCEPT ![pos] = NUL]
    /\ tokens' = Append(tokens, start)
    /\ state' = Pending
    /\ UNCHANGED start

Inside(ch) ==
    /\ state # Pending /\ ~Ends(state, ch) /\ ~Forbidden(state, ch)
    /\ UNCHANGED <<line, state, start, tokens>>

(* Fault: the pointer stays on a blank.                                     *)
Advance_not_over_blank(ch) ==
    /\ pos' = IF ch = Space THEN pos ELSE pos + 1
    /\ term' = (ch \in {NUL, Newline})

Advance(ch) ==
    /\ pos' = pos + 1
    /\ term' = (ch \in {NUL, Newline})

(* The character is read once, before a NUL is written over it.             *)
Turn ==
    /\ ret = "none" /\ ~term
    /\ LET ch == line[pos] IN
       \/ /\ Begin(ch) \/ End(ch) \/ Inside(ch)
          /\ Advance(ch)
          /\ UNCHANGED ret
       \/ /\ Forbidden(state, ch)
          /\ ret' = "error"
          /\ UNCHANGED <<line, pos, state, start, tokens, term>>
    /\ UNCHANGED text

Return ==
    /\ ret = "none" /\ term
    /\ ret' = IF state # Pending THEN "error" ELSE "ok"
    /\ UNCHANGED <<text, line, pos, state, start, tokens, term>>

ParseNext == Turn \/ Return

(* One thread, running whenever it can.                                     *)
ParseSpec == ParseInit /\ [][ParseNext]_parse_vars /\ WF_parse_vars(ParseNext)
-------------------------------------------------------------------------------
(* What the tokens of a text are, by the text alone: the first line of it   *)
(* is a series of blanks and tokens; a quoted token ends at the next quote  *)
(* of its kind, another one at the next blank and has no quotes in it.      *)

(* The first position from k on that holds one of S, or the one past s.     *)
FirstOf(s, k, S) == Min({n \in k .. Len(s) : s[n] \in S} \cup {Len(s) + 1})

FirstLine(s) == SubSeq(s, 1, FirstOf(s, 1, {Newline}) - 1)

(* Whether s is well-formed from position k on, and its tokens there; later *)
(* says so of the positions after k.                                        *)
TokensFrom(s, k, later) ==
    LET bad == [ok |-> FALSE, tokens |-> <<>>]
        Cut(word, r) == [ok |-> r.ok, tokens |-> <<word>> \o r.tokens]
        closing == FirstOf(s, k + 1, {s[k]})
        blank == FirstOf(s, k, {Space, Quote, Apostrophe})
    IN  IF k > Len(s) THEN [ok |-> TRUE, tokens |-> <<>>]
        ELSE IF s[k] = Space THEN later[k + 1]
        ELSE IF s[k] \in {Quote, Apostrophe}
        THEN IF closing > Len(s) THEN bad
             ELSE Cut(SubSeq(s, k + 1, closing - 1), later[closing + 1])
        ELSE IF blank <= Len(s) /\ s[blank] # Space THEN bad
        ELSE Cut(SubSeq(s, k, blank - 1), later[blank])

Reference(s) ==
    LET from[k \in 1 .. Len(s) + 1] == TokensFrom(s, k, from) IN from[1]

(* The C string that starts at a position of a line.                        *)
StringAt(l, k) == SubSeq(l, k, FirstOf(l, k, {NUL}) - 1)

(* parse_line accepts exactly the well-formed lines, and each pointer it    *)
(* returns is, in the line as it was overwritten, the string of its token.  *)
TokensAsDefined ==
    LET r == Reference(FirstLine(text)) IN
    /\ ret = "ok" => r.ok /\ [k \in DOMAIN tokens |-> StringAt(line, tokens[k])] = r.tokens
    /\ ret = "error" => ~r.ok

(* The walk never leaves the line: it ends, at the NUL at the latest.       *)
AlwaysReturns == <>(ret # "none")
===============================================================================
