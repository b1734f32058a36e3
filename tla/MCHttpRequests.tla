--------------------------- MODULE MCHttpRequests ---------------------------
EXTENDS HttpRequests, TLC

CONSTANTS s1, s2, s3, i1, i2, i3, i4, i5

MCSeedings == {s1, s2, s3}
SeedingSymmetry == Permutations(MCSeedings)
MCIdentifiers == {i1, i2, i3, i4, i5}
MCLanguages == <<"en", "zh">>

\* The statuses and keys the catalogs of both languages list; 415 has none.
MCStatuses == {200, 201, 400, 401, 403, 404, 409, 413, 422, 429, 500, 503}
MCKeys == {"CSRF_TOKEN_INVALID", "CSRF_DISABLED", "VALIDATION_FAILED"}

Part(range, quality) == [range |-> range, quality |-> quality, parses |-> TRUE]
Broken(range, quality) == [range |-> range, quality |-> quality, parses |-> FALSE]

\* None, one language, ties, weights against positions, a refused language
\* beside the wildcard, an unknown language, and parts that do not parse.
MCHeaders ==
  {<<>>,
   <<Part("zh", 10)>>,
   <<Part("*", 10)>>,
   <<Part("en", 5), Part("zh", 5)>>,
   <<Part("zh", 5), Part("en", 5)>>,
   <<Part("en", 5), Part("zh", 8), Part("*", 10)>>,
   <<Part("en", 0), Part("*", 10)>>,
   <<Part("zh", 0), Part("*", 3)>>,
   <<Part("fr", 10), Part("zh", 2)>>,
   <<Part("zh", 2), Part("en", 1), Part("zh", 0)>>,
   <<Broken("zh", 10), Part("fr", 10)>>}
=============================================================================
