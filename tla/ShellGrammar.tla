---------------------------- MODULE ShellGrammar ----------------------------
(***************************************************************************)
(* The command-line grammar both shells share: the Pipeline Frame system   *)
(* (frame/pipeline.frs) consuming the tokens of a line.  A word is its     *)
(* position in the line, so that the outcome tells where every word went.  *)
(***************************************************************************)
EXTENDS Integers, Sequences, SequencesExt, FiniteSetsExt

CONSTANT MaxTokens  \* bound: tokens in a line

VARIABLES
    line,       \* the tokens
    pos,        \* the next one to consume
    pl          \* the Pipeline system: state, commands, current, ...
grammar_vars == <<line, pos, pl>>

Redirs == {"<", ">", ">>"}
TokenKind == {"word", "|", "&"} \cup Redirs
NoTarget == 0
EmptyCommand == [words |-> <<>>, redir_in |-> NoTarget, redir_out |-> NoTarget, append |-> FALSE]

GrammarInit ==
    /\ line \in UNION {[1 .. k -> TokenKind] : k \in 0 .. MaxTokens} /\ pos = 1
    /\ pl = [st |-> "ReadingCommand", commands |-> <<>>, current |-> EmptyCommand,
             background |-> FALSE, pending_input |-> FALSE]

Committed == [pl EXCEPT !.commands = Append(@, pl.current), !.current = EmptyCommand]
To(p, st) == [p EXCEPT !.st = st]

reading_command(t) ==
    CASE t = "word" -> [pl EXCEPT !.current.words = Append(@, pos)]
      [] t = "<" -> To([pl EXCEPT !.pending_input = TRUE], "ExpectingTarget")
      [] t \in {">", ">>"} -> To([pl EXCEPT !.pending_input = FALSE, !.current.append = (t = ">>")],
                                 "ExpectingTarget")
      [] t = "|" -> IF pl.current.words = <<>> THEN To(pl, "Error") ELSE Committed
      [] t = "&" -> To([pl EXCEPT !.background = TRUE], "TrailingAmp")

expecting_target(t) ==
    CASE t # "word" -> To(pl, "Error")
      [] pl.pending_input -> To([pl EXCEPT !.current.redir_in = pos], "ReadingCommand")
      [] OTHER -> To([pl EXCEPT !.current.redir_out = pos], "ReadingCommand")

consume_token ==
    /\ pos <= Len(line) /\ pos' = pos + 1 /\ UNCHANGED line
    /\ pl' = CASE pl.st = "ReadingCommand" -> reading_command(line[pos])
               [] pl.st = "ExpectingTarget" -> expecting_target(line[pos])
               [] pl.st = "TrailingAmp" -> To(pl, "Error")
               [] OTHER -> pl

\* Mutant: a line that ends in a pipe runs the stages before it.
finalize_TrailingPipe ==
    /\ pos = Len(line) + 1 /\ pos' = pos + 1 /\ UNCHANGED line
    /\ pl' = CASE pl.st \in {"ReadingCommand", "TrailingAmp"} ->
                    To(IF pl.current.words = <<>> THEN pl ELSE Committed, "Done")
               [] OTHER -> To(pl, "Error")

finalize ==
    /\ pos = Len(line) + 1 /\ pos' = pos + 1 /\ UNCHANGED line
    /\ pl' = CASE pl.st = "ReadingCommand" /\ pl.current.words # <<>> -> To(Committed, "Done")
               [] pl.st = "ReadingCommand" /\ pl.commands = <<>> -> To(pl, "Done")
               [] pl.st = "TrailingAmp" -> To(IF pl.current.words = <<>> THEN pl ELSE Committed, "Done")
               [] OTHER -> To(pl, "Error")

GrammarNext == consume_token \/ finalize

-----------------------------------------------------------------------------
(* The grammar, by positions.                                              *)

TokenAt(t) == {k \in 1 .. Len(line) : line[k] = t}
IsTarget(k) == k > 1 /\ line[k - 1] \in Redirs
StageOf(k) == 1 + Cardinality({b \in TokenAt("|") : b < k})
WordsOf(s) == {k \in TokenAt("word") : StageOf(k) = s /\ ~IsTarget(k)}
TargetsOf(s, rs) == {k \in TokenAt("word") : StageOf(k) = s /\ IsTarget(k) /\ line[k - 1] \in rs}
LastOf(S) == IF S = {} THEN NoTarget ELSE Max(S)
Pipes == Cardinality(TokenAt("|"))

\* Every redirection has its file name, and & comes last.
Shape ==
    /\ \A k \in 1 .. Len(line) : line[k] \in Redirs => k < Len(line) /\ line[k + 1] = "word"
    /\ TokenAt("&") \subseteq {Len(line)}

\* In a command the words come before the redirections.
WordsFirst == \A s \in 1 .. Pipes + 1 :
    \A w \in WordsOf(s), f \in TargetsOf(s, Redirs) : w < f

\* pipeline.frs 7-8: command ('|' command)* '&'?, where a command is word+
\* and then redirections; and the line with nothing to run.
Grammar ==
    \/ Shape /\ WordsFirst /\ \A s \in 1 .. Pipes + 1 : WordsOf(s) # {}
    \/ line \in {<<>>, <<"&">>}

\* What is accepted besides: words after a redirection; redirections with
\* no command; and nothing, or only redirections, between | and &.
Lenient ==
    /\ Shape /\ \A s \in 1 .. Pipes : WordsOf(s) # {}
    /\ \/ WordsOf(Pipes + 1) # {} /\ ~WordsFirst
       \/ WordsOf(Pipes + 1) = {} /\ Pipes = 0
       \/ WordsOf(Pipes + 1) = {} /\ TokenAt("&") # {}

\* A last stage without words is dropped, with its redirections.
Expected ==
    [s \in 1 .. IF WordsOf(Pipes + 1) = {} THEN Pipes ELSE Pipes + 1 |->
        [words |-> SetToSortSeq(WordsOf(s), <),
         redir_in |-> LastOf(TargetsOf(s, {"<"})),
         redir_out |-> LastOf(TargetsOf(s, {">", ">>"})),
         append |-> LET o == LastOf(TargetsOf(s, {">", ">>"})) IN o # NoTarget /\ line[o - 1] = ">>"]]

(* The system accepts the lines of the grammar and, of the others, exactly *)
(* the three kinds of Lenient.  Then every word, file name and & of the    *)
(* line is where the grammar puts it: no stage is empty, none of them gets *)
(* a word of another, and the last redirection of a kind wins.             *)
GrammarExact ==
    pos > Len(line) + 1 =>
      /\ pl.st = "Done" <=> Grammar \/ Lenient
      /\ pl.st = "Done" => pl.commands = Expected /\ pl.background = (TokenAt("&") # {})

(* The grammar as pipeline.frs and docs/systems/pipeline.md give it, which *)
(* the lines of Lenient refute.                                            *)
FollowsGrammar == pos > Len(line) + 1 => (pl.st = "Done" <=> Grammar)
=============================================================================
