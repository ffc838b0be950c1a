---------------------------- MODULE MCRemoteHost ----------------------------
(* The clients RemoteHost is checked with by TLC.                           *)
EXTENDS RemoteHost, TLC

CONSTANTS c1, c2

RelayAlone == c1 :> "relay" @@ c2 :> "none"
CookieAlone == c1 :> "cookie" @@ c2 :> "none"

\* A client behind the relay and a client that talks in clear, each of them
\* alone, where the peer may also vanish without a close ...
FrailPopulations == {RelayAlone, CookieAlone}

\* ... two clients that talk in clear, and a client that encrypts.
Populations == FrailPopulations \cup {c1 :> "cookie" @@ c2 :> "cookie",
                                      c1 :> "e2ee" @@ c2 :> "none"}
=============================================================================
