--------------------------- MODULE ProviderStream ---------------------------
(***************************************************************************)
(* How the streams of the HTTP providers are read (src/src/router/mod.rs):  *)
(* the reply arrives in chunks cut anywhere, lines are taken from a buffer  *)
(* as they become complete, and each provider reads tokens and usage out of *)
(* its own kinds of line.                                                  *)
(*                                                                         *)
(* A line of a reader is two pieces and its end: the prefix "data" and what *)
(* it carries.                                                             *)
(* A chunk is any number of pieces; a piece stands for bytes that a cut     *)
(* inside does not change.                                                 *)
(***************************************************************************)
EXTENDS Integers, Sequences

CONSTANTS
  Format,       \* of the reply: "openai" (vLLM's too), "anthropic", "gemini"
  Reply,        \* what a provider may send
  MaxBuffer     \* MAX_SSE_BUFFER_BYTES, in pieces

End == "end"    \* of a line
\* What a line may carry: a token, usage counters, OpenAI's last line, and
\* what no reader understands.
Carried == {"x", "y", "in1", "in2", "out1", "out2", "[DONE]", "noise"}
Piece == {"data", End} \cup Carried
ASSUME StreamAssumption ==
  /\ Format \subseteq {"openai", "anthropic", "gemini"} /\ MaxBuffer \in Nat
  /\ Reply \subseteq Seq(Piece)

VARIABLES
  format, sent,    \* the reply, chosen at the start
  read,            \* pieces of it received
  buf,             \* the buffer of the reader
  shown,           \* tokens given to on_token
  output, usage,   \* what the reader has gathered
  reader           \* "reading", "ok" or "err"
streamVars == <<format, sent, read, buf, shown, output, usage, reader>>

\* drain_sse_lines: the complete lines of a buffer, and what is left of it.
Nil == [lines |-> << >>, rest |-> << >>]
Taking(s, x) ==
  IF x = End THEN [lines |-> Append(s.lines, s.rest), rest |-> << >>]
  ELSE [lines |-> s.lines, rest |-> Append(s.rest, x)]
Split(b) ==
  LET s[n \in 0..Len(b)] == IF n = 0 THEN Nil ELSE Taking(s[n - 1], b[n])
  IN  s[Len(b)]
Lines(b) == Split(b).lines

(* A wrong variant: what follows the last line end is dropped.             *)
Rest_Dropped(b) == << >>

Rest(b) == Split(b).rest

\* What the readers gather: tokens, usage [in, out] and whether they are done.
NoUsage == [seen |-> FALSE, in |-> 0, out |-> 0]
Fresh == [tokens |-> << >>, usage |-> NoUsage, done |-> FALSE]
Tokens == {"x", "y"}
Larger(a, b) == IF a < b THEN b ELSE a
Count(c) == IF c \in {"in1", "out1"} THEN 1 ELSE 2

\* A usage block of OpenAI and of Gemini has both counters and replaces the
\* one before; the block without prompt tokens is no block.
Replacing(u, c) ==
  IF c \in {"in1", "in2"} THEN [seen |-> TRUE, in |-> Count(c), out |-> 0] ELSE u
OpenAiLine(g, c) ==
  IF g.done THEN g
  ELSE [g EXCEPT !.done = c = "[DONE]",
                 !.tokens = IF c \in Tokens THEN Append(@, c) ELSE @,
                 !.usage = Replacing(@, c)]
GeminiLine(g, c) ==
  [g EXCEPT !.tokens = IF c \in Tokens THEN Append(@, c) ELSE @,
            !.usage = Replacing(@, c)]
\* Anthropic counts the input at the start and the output along the way, and
\* keeps the larger of the values seen.
Enlarged(u, c) ==
  CASE c \in {"in1", "in2"} -> [u EXCEPT !.seen = TRUE, !.in = Larger(@, Count(c))]
    [] c \in {"out1", "out2"} -> [u EXCEPT !.seen = TRUE, !.out = Larger(@, Count(c))]
    [] OTHER -> u
AnthropicLine(g, c) ==
  [g EXCEPT !.tokens = IF c \in Tokens THEN Append(@, c) ELSE @,
            !.usage = Enlarged(@, c)]

ReadLine(f, g, line) ==
  IF Len(line) # 2 THEN g
  ELSE CASE f = "openai" -> OpenAiLine(g, line[2])
         [] f = "anthropic" -> AnthropicLine(g, line[2])
         [] f = "gemini" -> GeminiLine(g, line[2])
Gathered(f, g, lines) ==
  LET h[n \in 0..Len(lines)] == IF n = 0 THEN g ELSE ReadLine(f, h[n - 1], lines[n])
  IN  h[Len(lines)]

-----------------------------------------------------------------------------
Chunk(n) == SubSeq(sent, read + 1, read + n)

\* One chunk: refused when the buffer would pass its limit, else buffered and
\* its complete lines read; after [DONE] nothing more is read.
Receive ==
  /\ reader = "reading"
  /\ \E n \in 1..(Len(sent) - read) :
       LET b == buf \o Chunk(n)
           g == Gathered(format, [tokens |-> output, usage |-> usage, done |-> FALSE],
                         Lines(b))
       IN  /\ read' = read + n
           /\ IF Len(b) > MaxBuffer
              THEN reader' = "err" /\ UNCHANGED <<buf, shown, output, usage>>
              ELSE /\ buf' = Rest(b)
                   /\ output' = g.tokens /\ usage' = g.usage
                   /\ shown' = shown \o SubSeq(g.tokens, Len(output) + 1, Len(g.tokens))
                   /\ reader' = IF g.done THEN "ok" ELSE reader
  /\ UNCHANGED <<format, sent>>
\* The connection closed: whatever was gathered is the answer.
Closed ==
  /\ reader = "reading" /\ read = Len(sent)
  /\ reader' = "ok"
  /\ UNCHANGED <<format, sent, read, buf, shown, output, usage>>
\* A chunk that arrives as an error ends the call with it.
Breaks ==
  /\ reader = "reading"
  /\ reader' = "err"
  /\ UNCHANGED <<format, sent, read, buf, shown, output, usage>>

StreamInit ==
  /\ format \in Format /\ sent \in Reply /\ read = 0 /\ buf = << >>
  /\ shown = << >> /\ output = << >> /\ usage = NoUsage /\ reader = "reading"
StreamNext == Receive \/ Closed \/ Breaks
StreamSpec == StreamInit /\ [][StreamNext]_streamVars

-----------------------------------------------------------------------------
(* An answer is what the lines of the reply say, however the reply was cut  *)
(* into chunks, and what was shown on the way is the answer.  A last line   *)
(* without an end is not part of it.                                       *)
CutsDoNotMatter ==
  /\ shown = output
  /\ reader = "ok" =>
       LET whole == Gathered(format, Fresh, Lines(sent))
       IN  output = whole.tokens /\ usage = whole.usage
=============================================================================
