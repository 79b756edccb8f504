------------------------------ MODULE HTTPFix -------------------------------
(***************************************************************************)
(* internal/httpfix/host.go: the connection net/http reads requests from.  *)
(* Consoles send the Host header twice, which net/http refuses, so every   *)
(* header block is held back until its blank line and handed on with one   *)
(* Host; bodies and TLS go through as they are.                            *)
(*                                                                         *)
(* A header block is a sequence of lines, a body a sequence of bytes, one  *)
(* symbol for each; a byte may look like a Host line.  A request names its *)
(* body's length: consoles do not send chunked bodies.                     *)
(***************************************************************************)
EXTENDS Naturals, Sequences, SequencesExt

CONSTANTS
  Symbols,      \* the lines and bytes
  Requests,     \* what clients send: sequences of [head, body]
  LengthLines,  \* Content-Length line |-> the length
  Rooms,        \* the sizes of the buffers net/http reads into
  MaxHeader     \* lines a block may have before it is handed on unread:
                \* 64 KiB in the code

VARIABLE web

NoWeb == [state |-> "none"]
WebEnded == [state |-> "ended"]

Host == "host"
Blank == "blank"
Hello == "tls"      \* the first bytes of a TLS handshake

Wire(w) == FlattenSeq([i \in 1..Len(w.requests) |-> w.requests[i].head \o w.requests[i].body])
Unread(w) == Len(Wire(w)) - w.taken

(* WrapListener's Accept.  `held' is the local raw of loadHeaders, `out'   *)
(* what net/http has read; `cut' records that a block was handed on raw.   *)
Wrapped(requests) ==
  [state |-> "open", requests |-> requests, taken |-> 0, checked |-> FALSE, tls |-> FALSE,
   held |-> << >>, buf |-> << >>, bodyLeft |-> 0, out |-> << >>, cut |-> FALSE]

-----------------------------------------------------------------------------
(* A sequence without the elements at some positions.                      *)
Dropping(block, at) ==
  LET kept[i \in 0..Len(block)] ==
        IF i = 0 THEN << >>
        ELSE IF i \in at THEN kept[i - 1]
        ELSE Append(kept[i - 1], block[i])
  IN  kept[Len(block)]

Hosts(block) == {i \in 1..Len(block) : block[i] = Host}

DedupeHost(block) ==
  Dropping(block, {i \in Hosts(block) : \E j \in Hosts(block) : j < i})

(* The first Content-Length of the block; without one there is no body.    *)
ContentLength(block) ==
  LET at == {i \in 1..Len(block) : block[i] \in DOMAIN LengthLines}
  IN  IF at = {} THEN 0 ELSE LengthLines[block[Min(at)]]

(* A console's requests, unless they are a TLS stream: heads of lines up   *)
(* to the blank one, and bodies as long as their heads say.                *)
WellFormed(w) ==
  \/ Wire(w)[1] = Hello
  \/ \A i \in 1..Len(w.requests) :
       LET request == w.requests[i]
       IN  /\ request.head # << >>
           /\ \A j \in 1..Len(request.head) :
                request.head[j] = Blank <=> j = Len(request.head)
           /\ ContentLength(DedupeHost(request.head)) = Len(request.body)

ASSUME HTTPFixAssumption ==
  /\ \A requests \in Requests : /\ requests \in Seq([head : Seq(Symbols), body : Seq(Symbols)])
                               /\ WellFormed(Wrapped(requests))
  /\ LengthLines \in [DOMAIN LengthLines -> Nat]
  /\ Rooms \subseteq Nat

-----------------------------------------------------------------------------
(* checkTLS, at the first Read: a handshake is taken as it comes, the      *)
(* first bytes into buf.                                                   *)
CheckTLS(n) ==
  /\ web.state = "open" /\ ~web.checked
  /\ IF Wire(web)[1] = Hello
     THEN /\ n \in 1..Unread(web)
          /\ web' = [web EXCEPT !.checked = TRUE, !.tls = TRUE, !.taken = n,
                                !.buf = SubSeq(Wire(web), 1, n)]
     ELSE n = 0 /\ web' = [web EXCEPT !.checked = TRUE]

Reading == web.state = "open" /\ web.checked

(* net/http reads with room for `room' bytes.  Pending bytes come first.  *)
Hand(room) ==
  /\ Reading /\ web.buf # << >>
  /\ LET n == Min({room, Len(web.buf)})
     IN  web' = [web EXCEPT !.out = @ \o SubSeq(web.buf, 1, n),
                           !.buf = SubSeq(@, n + 1, Len(@))]

\* Faulty: what is left of the body is not counted, and the next header
\* block is taken for more of it.
ThroughUncounted(room, n) ==
  /\ Reading /\ web.buf = << >> /\ n <= room /\ n <= Unread(web)
  /\ web.tls \/ n <= web.bodyLeft
  /\ web' = [web EXCEPT !.out = @ \o SubSeq(Wire(web), web.taken + 1, web.taken + n),
                        !.taken = @ + n]

(* With nothing pending, what has come of a body, or of TLS, goes straight *)
(* on.                                                                     *)
Through(room, n) ==
  /\ Reading /\ web.buf = << >> /\ n <= room /\ n <= Unread(web)
  /\ web.tls \/ n <= web.bodyLeft
  /\ web' = [web EXCEPT !.out = @ \o SubSeq(Wire(web), web.taken + 1, web.taken + n),
                        !.taken = @ + n,
                        !.bodyLeft = IF web.tls THEN 0 ELSE @ - n]

InHeaders == Reading /\ ~web.tls /\ web.buf = << >> /\ web.bodyLeft = 0

(* One line for loadHeaders.  The blank one ends the block; a block over   *)
(* the limit is handed on unread, and the rest of it is taken for another. *)
LoadLine ==
  /\ InHeaders /\ Unread(web) > 0
  /\ LET line == Wire(web)[web.taken + 1]
         block == Append(web.held, line)
         deduped == DedupeHost(block)
     IN  web' = IF line = Blank
                THEN [web EXCEPT !.taken = @ + 1, !.held = << >>, !.buf = deduped,
                                 !.bodyLeft = ContentLength(deduped)]
                ELSE IF Len(block) > MaxHeader
                THEN [web EXCEPT !.taken = @ + 1, !.held = << >>, !.buf = block, !.cut = TRUE]
                ELSE [web EXCEPT !.taken = @ + 1, !.held = block]

\* Faulty: the error of the read is returned and the lines before it are lost.
CutHeaderLost ==
  /\ InHeaders /\ web.held # << >>
  /\ web' = [web EXCEPT !.held = << >>, !.cut = TRUE]

(* A read fails in the middle of a block: the client went, a time limit    *)
(* passed, or net/http took back the read it starts while a handler runs.  *)
(* What there is of the block is handed on raw, and only the next Read, if *)
(* at all, fails: after the third cause the stream goes on.                *)
CutHeader ==
  /\ InHeaders /\ web.held # << >>
  /\ web' = [web EXCEPT !.buf = web.held, !.held = << >>, !.cut = TRUE]

(* Either side ends the connection.                                        *)
CloseWeb ==
  /\ web.state = "open"
  /\ web' = WebEnded

-----------------------------------------------------------------------------
(* What net/http is to read: the head of each request with its first Host, *)
(* its body untouched.                                                     *)
Rewritten(w) ==
  IF Wire(w)[1] = Hello THEN Wire(w)
  ELSE FlattenSeq([i \in 1..Len(w.requests) |->
                     DedupeHost(w.requests[i].head) \o w.requests[i].body])

WithoutHosts(symbols) == Dropping(symbols, Hosts(symbols))

(* host.go:17-24: every header block of a connection that is kept alive is *)
(* rewritten, not only the first, and nothing of a body is, whatever it    *)
(* looks like; unless a block had to be handed on raw.                     *)
HostOnce == web.state = "open" /\ ~web.cut => IsPrefix(web.out, Rewritten(web))

(* host.go:64-176: rewriting loses, repeats and reorders nothing but Host  *)
(* lines, also across reads that fail and blocks over the limit.           *)
OnlyHostsDropped ==
  web.state = "open" =>
    WithoutHosts(web.out \o web.buf \o web.held)
      = WithoutHosts(SubSeq(Wire(web), 1, web.taken))
=============================================================================
