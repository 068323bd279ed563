--------------------------- MODULE MCHttpObserve ---------------------------
(* A small instance of HttpObserve for TLC.                                *)
EXTENDS HttpObserve, TLC

CONSTANTS r1, r2, id

TwoRequests == {r1, r2}

OneRoute == {"/v1/health/ready"}
OneMethod == {"GET"}
TwoCodes == {200, 503}
OneId == {id}

Header(f, v, i) == [fields |-> f, version |-> v, id |-> i]

\* A well-formed header, one each of what makes a header ill-formed, none at all.
SomeHeaders ==
    {Header(4, 2, id), Header(4, 2, ZeroId), Header(4, 2, NoId),
     Header(3, 2, id), Header(4, 1, id), Header(1, 0, NoId)}

Interchangeable == Permutations(Requests)
=============================================================================
