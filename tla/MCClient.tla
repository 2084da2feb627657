------------------------------ MODULE MCClient ------------------------------
EXTENDS Client

CONSTANTS a, b

\* A fetch or a websocket beside a replacement, and two replacements.
MCMixes == {a :> k @@ b :> "replace" : k \in {"fetch", "websocket", "replace"}}

MCUrl(scheme, auth, path) == [scheme |-> scheme, auth |-> auth, path |-> path]

MCStartUrl == MCUrl("http", "a", 1)

\* A path of the same host, and a URL of another.
MCLocations == {MCUrl(None, None, 2), MCUrl("http", "b", 1)}
=============================================================================
