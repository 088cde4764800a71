------------------------------- MODULE CtsReport -------------------------------
(* How a benchmark page reports to the test: a synchronous POST.            *)

CONSTANT None

VARIABLES
  serving,   \* the test's web server accepts connections
  post,      \* the request whose answer the page's script waits for
  wire       \* the same request, until the server accepts it

channel == <<post, wire>>

\* The script of the page is not blocked in a request.
Free == post = None

\* CtsReport: open with async = false and send.  Without a server send throws
\* and the script ends, which is modelled as an answer that never comes.
CtsReport(message, score, isFinal, round) ==
  LET request == [message |-> message, score |-> score, final |-> isFinal, round |-> round]
  IN  /\ post' = request
      /\ wire' = IF serving THEN request ELSE None
================================================================================
