---------------------------- MODULE MCImportPost ----------------------------
(***************************************************************************)
(* Instance of ImportPost: three URLs, a local post that may exist, and    *)
(* documents of which at most one links to something.                      *)
(***************************************************************************)
EXTENDS ImportPost, TLC

CONSTANTS u1, u2, u3, here, executor, search

MCUrl     == {u1, u2, u3}
MCLocalId == {here}

Canons == {c \in [MCUrl -> MCUrl \cup MCLocalId] :
              \A u \in MCUrl : c[u] \in MCUrl => c[c[u]] = c[u]}

\* What the document of a redirected URL says is what the redirection's end says.
Final(c) == {u \in MCUrl : c[u] = u}

Parents(c) == {p \in [MCUrl -> MCUrl \cup MCLocalId \cup {None}] :
                  \A u \in MCUrl \ Final(c) : p[u] = None}

Links(c) == {[u \in MCUrl |-> IF u = x THEN <<id>> ELSE <<>>] :
                x \in Final(c), id \in MCUrl \cup MCLocalId}
            \cup {[u \in MCUrl |-> <<>>]}

MCWorld ==
    UNION {[canon : {c}, parent : Parents(c), links : Links(c)] : c \in Canons}

MCImporter == {executor, search}

MCSymmetry == Permutations(MCUrl) \cup Permutations(MCImporter)
=============================================================================
