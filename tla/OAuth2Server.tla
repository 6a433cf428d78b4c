--------------------------- MODULE OAuth2Server ---------------------------
(***************************************************************************)
(* session/oauth2.go and the part of connectInteractive that waits for it: *)
(* the HTTP server for the callback of the browser, its code channel, the  *)
(* goroutine that stops it, and the caller.                                *)
(***************************************************************************)
VARIABLES
    ctxDone,     \* is the context of the caller done?
    serverDone,  \* was serverCancel called?
    server,      \* "off" | "on" | "drain" (closed, before its last select) | "closed"
    handler,     \* has a callback with a code been accepted and not yet handled?
    code,        \* is a code in codeCh (capacity 1)?
    codeClosed,  \* is codeCh closed?
    waiter       \* connectInteractive: "off" | "waiting" | "exchange" | "failed"

serverVars == <<ctxDone, serverDone, server, handler, code, codeClosed, waiter>>

ServerTypeOK ==
    /\ ctxDone \in BOOLEAN /\ serverDone \in BOOLEAN
    /\ server \in {"off", "on", "drain", "closed"}
    /\ handler \in BOOLEAN /\ code \in BOOLEAN /\ codeClosed \in BOOLEAN
    /\ waiter \in {"off", "waiting", "exchange", "failed"}

ServerInit ==
    /\ ctxDone = FALSE /\ serverDone = FALSE
    /\ server = "off" /\ handler = FALSE
    /\ code = FALSE /\ codeClosed = FALSE
    /\ waiter = "off"

\* NewOAuth2Server, which may find the port taken.
StartServer ==
    /\ waiter = "off"
    /\ \/ server' = "on" /\ waiter' = "waiting" /\ UNCHANGED serverDone
       \/ serverDone' = TRUE /\ waiter' = "failed" /\ UNCHANGED server
    /\ UNCHANGED <<ctxDone, handler, code, codeClosed>>

\* The browser calls back with a code, once more perhaps.  A callback with an
\* error is answered and changes nothing.
Callback ==
    /\ server = "on" /\ ~handler
    /\ handler' = TRUE
    /\ UNCHANGED <<ctxDone, serverDone, server, code, codeClosed, waiter>>

\* The send of the handler, which does not block.  server.Close does not wait
\* for it; on a closed channel it panics, and net/http recovers from that.
Handle ==
    /\ handler
    /\ handler' = FALSE
    /\ code' = (code \/ ~codeClosed)
    /\ UNCHANGED <<ctxDone, serverDone, server, codeClosed, waiter>>

\* Slip: the server is stopped on the error paths only.
TakeCodeNoCancel ==
    /\ waiter = "waiting" /\ code
    /\ code' = FALSE
    /\ waiter' = "exchange"
    /\ UNCHANGED <<ctxDone, serverDone, server, handler, codeClosed>>

TakeCode ==
    /\ waiter = "waiting" /\ code
    /\ code' = FALSE
    /\ serverDone' = TRUE
    /\ waiter' = "exchange"
    /\ UNCHANGED <<ctxDone, server, handler, codeClosed>>

\* The other ready cases of the select: the context, a closed channel.
GiveUpWaiting ==
    /\ waiter = "waiting"
    /\ ctxDone \/ (codeClosed /\ ~code)
    /\ serverDone' = TRUE
    /\ waiter' = "failed"
    /\ UNCHANGED <<ctxDone, server, handler, code, codeClosed>>

\* serverCtx is done when it was cancelled or its parent was.
StopServer ==
    /\ server = "on" /\ (serverDone \/ ctxDone)
    /\ server' = "drain"
    /\ UNCHANGED <<ctxDone, serverDone, handler, code, codeClosed, waiter>>

\* A code that nobody took is dropped, otherwise the channel is closed.
Drain ==
    /\ server = "drain"
    /\ server' = "closed"
    /\ code' = FALSE /\ codeClosed' = ~code
    /\ UNCHANGED <<ctxDone, serverDone, handler, waiter>>

Cancel ==
    /\ ~ctxDone /\ ctxDone' = TRUE
    /\ UNCHANGED <<serverDone, server, handler, code, codeClosed, waiter>>

WaiterStep  == TakeCode \/ GiveUpWaiting
StopperStep == StopServer \/ Drain

-----------------------------------------------------------------------------
\* Properties

\* A login that got its code, or was cancelled, goes on, and its server stops
\* listening, also when the cancellation and the callback race and the
\* stopping server takes the code away (connectInteractive, NewOAuth2Server).
InteractiveSettles ==
    (waiter = "waiting" /\ (code \/ ctxDone))
        ~> (waiter # "waiting" /\ server \in {"off", "closed"})
=============================================================================
