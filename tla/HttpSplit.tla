----------------------------- MODULE HttpSplit ------------------------------
(***************************************************************************)
(* The parser of a connection, whose input comes in buffers and may be cut *)
(* before any byte, beside one that reads the same bytes and is never cut. *)
(* The callbacks of a byte, and what the parsers know, must not depend on  *)
(* the cuts.                                                               *)
(***************************************************************************)
EXTENDS HttpParser

VARIABLE whole    \* the parser that is never cut

splitVars == <<vars, whole>>

SplitInit == Init /\ whole = parser

(* A call of http_parser_execute ends and the next one begins, inside a       *)
(* buffer.  A call that fails at its end is the last.                         *)
Cut ==
    /\ text # <<>> /\ ~Stopped(parser)
    /\ LET q == BufferEnds(parser)
       IN  /\ parser' = IF Failed(q) THEN q ELSE BufferBegins(q)
           /\ text' = IF Failed(q) THEN <<>> ELSE text
    /\ UNCHANGED <<open, pending, whole>>

BothRead == Byte /\ whole' = Read(whole, Head(text))

BothEnd == Eof /\ whole' = EndOfInput(whole)

SplitNext == Cut \/ BothRead \/ BothEnd \/ (Execute /\ UNCHANGED whole)

SplitSpec == SplitInit /\ [][SplitNext]_splitVars
-----------------------------------------------------------------------------
(* What a caller can see, and what decides about the bytes to come. *)
Seen == {"state", "header_state", "index", "flags", "content_length", "method", "http_major",
         "http_minor", "status_code", "upgrade", "exited", "data", "calls"}

(* Wherever the input is cut, each byte goes to the same callback, the same   *)
(* messages begin and end at the same bytes, and both parsers go on alike:    *)
(* marks, loops and skips that a call leaves behind are all resumed.          *)
SplitInvisible ==
    /\ parser.http_errno = whole.http_errno
    /\ ~Failed(parser) => \A f \in Seen : parser[f] = whole[f]
=============================================================================
