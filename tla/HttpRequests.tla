---------------------------- MODULE HttpRequests ----------------------------
(***************************************************************************)
(* The edge of the HTTP interface, as one browser meets it: CsrfService    *)
(* seeds two cookies that only work together, responses arrive in any      *)
(* order, and every request is answered in the language it asks for and,   *)
(* once the boundary guard has seen it, in the form of its route,          *)
(* whichever stage of the pipeline ends it.                                *)
(*                                                                         *)
(* csrf-csrf, the throttler, nestjs-i18n and the browser are external: a   *)
(* token is the identifier it was made for, a message the language it is   *)
(* written in.  The catalogs of all languages have the same keys.          *)
(***************************************************************************)
EXTENDS Naturals, Sequences, FiniteSets

CONSTANTS Seedings,            \* slots of GET requests that seed the cookies
          Identifiers, NoId,   \* CSRF identifiers, one per randomUUID
          Headers,             \* Accept-Language headers, parsed
          SupportedLanguages,  \* I18N_SUPPORTED_LANGUAGES, a sequence
          Fallback,            \* I18N_FALLBACK_LANGUAGE
          CataloguedStatuses,  \* http.<status>
          CataloguedKeys       \* errors.<key>

Languages == {SupportedLanguages[i] : i \in DOMAIN SupportedLanguages}
Wildcard == "*"

ASSUME EdgeAssumption ==
  /\ NoId \notin Identifiers /\ IsFiniteSet(Seedings)
  /\ Cardinality(Identifiers) >= Cardinality(Seedings) + 2
  /\ SupportedLanguages \in Seq(STRING)
  /\ Fallback \in Languages /\ Wildcard \notin Languages
  /\ {400, 500} \subseteq CataloguedStatuses
  /\ {"CSRF_TOKEN_INVALID", "VALIDATION_FAILED"} \subseteq CataloguedKeys

\* A header is a sequence of parts; a quality counts thousandths.
ASSUME HeaderAssumption == \A header \in Headers :
  header \in Seq([range : STRING, quality : Nat, parses : BOOLEAN])

VARIABLES
  enabled,   \* CSRF_ENABLED
  jar,       \* the browser's cookies: the identifier and the token
  response,  \* seeding responses under way: the cookies they set
  seeded,    \* the last seeding ran alone, and nothing touched the jar since
  reply      \* the last answer, beside what its request called for

httpVars == <<enabled, jar, response, seeded, reply>>

NoResponse == [id |-> NoId, token |-> NoId, alone |-> FALSE, sent |-> FALSE]
NoReply == [native |-> FALSE, form |-> "envelope", language |-> Fallback,
            preferred |-> {Fallback}, by |-> "none",
            refused |-> FALSE, entitled |-> FALSE]

HttpInit ==
  /\ enabled \in BOOLEAN
  /\ jar = [id |-> NoId, token |-> NoId]
  /\ response = [s \in Seedings |-> NoResponse]
  /\ seeded = FALSE
  /\ reply = NoReply

-----------------------------------------------------------------------------
(* The language of an answer: resolveSupportedLanguage.                    *)

\* Parts that do not parse are dropped; the others keep their position.
LanguagePreferences(header) ==
  {[range |-> header[i].range, quality |-> header[i].quality, position |-> i] :
     i \in {j \in DOMAIN header : header[j].parses}}

Better(p, q) == p.quality > q.quality \/ (p.quality = q.quality /\ p.position < q.position)

Best(preferences) == {p \in preferences : \A q \in preferences : ~Better(q, p)}

\* A language named by a range takes no part in the wildcard.
SupportedPreference(language, preferences) ==
  LET named == {p \in preferences : p.range = language} IN
  Best(IF named # {} THEN named ELSE {p \in preferences : p.range = Wildcard})

ResolveSupportedLanguage == [header \in Headers |->
  LET preferences == LanguagePreferences(header)
      PreferenceFor(i) ==
        {p \in SupportedPreference(SupportedLanguages[i], preferences) : p.quality > 0}
      supported == UNION {PreferenceFor(i) : i \in DOMAIN SupportedLanguages}
      chosen == {i \in DOMAIN SupportedLanguages : PreferenceFor(i) \cap Best(supported) # {}}
  IN IF chosen = {} THEN Fallback
     ELSE SupportedLanguages[CHOOSE i \in chosen : \A j \in chosen : i <= j]]

-----------------------------------------------------------------------------
(* The language a message is written in: ApiExceptionFilter.               *)

Translated(isCatalogued, language, defaultLanguage) ==
  IF isCatalogued THEN language ELSE defaultLanguage

LocalizedHttpStatusMessage_NoCategory(status, language) ==
  Translated(status \in CataloguedStatuses, language, "en")

\* A status without an entry falls back to its category's.
LocalizedHttpStatusMessage(status, language) ==
  LET category == IF status >= 500 THEN 500 ELSE 400
      general == Translated(category \in CataloguedStatuses, language, Fallback)
  IN IF language = Fallback THEN Fallback
     ELSE Translated(status \in CataloguedStatuses, language, general)

\* A thrown body is a literal (the throttler's text, a business message), a
\* catalog key, the validation pipe's errors, or one a framework generated.
ResolveExceptionMessage(exception, language) ==
  CASE exception.body = "literal" ->
         IF language = Fallback THEN Fallback
         ELSE LocalizedHttpStatusMessage(exception.status, language)
    [] exception.body = "key" ->
         Translated(exception.key \in CataloguedKeys, language,
                    LocalizedHttpStatusMessage(exception.status, language))
    [] exception.body = "validation" ->
         Translated("VALIDATION_FAILED" \in CataloguedKeys, language, language)
    [] OTHER -> LocalizedHttpStatusMessage(exception.status, language)

Thrown(status, body) == [status |-> status, body |-> body, key |-> "none"]

-----------------------------------------------------------------------------
(* The routes, and the answer to a request.                                *)

Routes == {"session", "token", "read", "write", "probe", "missing"}
IsUnsafe(route) == route = "write"

\* The probes' controller carries @SkipApiEnvelope(), their handlers do not.
SkipApiEnvelope(route, target) == route = "probe" /\ target = "class"

IsNativeResponseBoundary_HandlerOnly(route) == SkipApiEnvelope(route, "handler")

IsNativeResponseBoundary(route) ==
  \E target \in {"handler", "class"} : SkipApiEnvelope(route, target)

\* response.locals: unmarked until the boundary guard, the first of all
\* guards, has run; the interceptor marks the same routes again.
Unmarked == FALSE
BoundaryMark(route) == IsNativeResponseBoundary(route)

\* What the request called for: the languages its header rates highest, by
\* the best range that names each, and the answer entitled to come.
Rating(language, header) ==
  LET rates(range) ==
        {header[i].quality : i \in {j \in DOMAIN header :
            header[j].range = range /\ header[j].parses}}
      ratings == IF rates(language) # {} THEN rates(language) ELSE rates(Wildcard)
  IN IF ratings = {} THEN 0 ELSE CHOOSE q \in ratings : \A p \in ratings : q >= p

PreferredLanguages == [header \in Headers |->
  LET rated == {l \in Languages : Rating(l, header) > 0}
  IN IF rated = {} THEN {Fallback}
     ELSE {l \in rated : \A k \in rated : Rating(l, header) >= Rating(k, header)}]

Answer(route, header, form, language) ==
  [NoReply EXCEPT !.native = route = "probe", !.form = form, !.language = language,
                  !.preferred = PreferredLanguages[header]]

\* ApiExceptionFilter.catch knows the route by the mark alone.
CatchException(route, header, mark, exception) ==
  LET language == ResolveSupportedLanguage[header]
      message == ResolveExceptionMessage(exception, language)
  IN Answer(route, header, IF mark THEN "native" ELSE "envelope", message)

\* ApiEnvelopeInterceptor.intercept, after a handler that succeeded.
Envelope(route, header) ==
  IF IsNativeResponseBoundary(route)
  THEN Answer(route, header, "native", Fallback)
  ELSE Answer(route, header, "envelope", ResolveSupportedLanguage[header])

-----------------------------------------------------------------------------
(* The stages that may end a request, in their order.                      *)

EndedBy(stage, answer) == reply' = [answer EXCEPT !.by = stage]

\* A stage before the boundary guard throws, or the route's own: a later
\* guard, a pipe or the handler.
ThrowsEarly(stage, route, header, exception) ==
  EndedBy(stage, CatchException(route, header, Unmarked, exception))
Throws(route, header, exception) ==
  EndedBy("route", CatchException(route, header, BoundaryMark(route), exception))

\* The body parsers read the body of any method, for any path, and reject it
\* before anything else looks at the request.
BodyIsRejected(route, header) ==
  \E status \in {400, 413, 415} :
    ThrowsEarly("parser", route, header, Thrown(status, "none"))

\* doubleCsrfProtection: the token of the header is the token cookie, made
\* for the identifier cookie.
IsProtected(sendsToken) == sendsToken /\ jar.token # NoId /\ jar.token = jar.id

Admitted(route, sendsToken) == enabled /\ IsUnsafe(route) => IsProtected(sendsToken)

\* The CSRF error handler answers without the filter.
CsrfRefuses(route, header, sendsToken) ==
  LET language == Translated("CSRF_TOKEN_INVALID" \in CataloguedKeys,
                             ResolveSupportedLanguage[header], Fallback)
      answer == Answer(route, header, "envelope", language)
  IN /\ ~Admitted(route, sendsToken)
     /\ EndedBy("csrf", [answer EXCEPT !.refused = TRUE, !.entitled = seeded /\ sendsToken])

RouteIsMissing(route, header) ==
  /\ route = "missing"
  /\ ThrowsEarly("router", route, header, Thrown(404, "framework"))

\* The limiter spares the probes.
ThrottlerRefuses(route, header) ==
  /\ route \notin {"probe", "missing"}
  /\ Throws(route, header, Thrown(429, "literal"))

\* Only application routes have a session, and only some an administrator.
SessionGuardsRefuse(route, header) ==
  /\ route \in {"read", "write"}
  /\ \E status \in {401, 403} :
       Throws(route, header, Thrown(status, "framework"))

ValidationFails(route, header) ==
  /\ route = "write"
  /\ Throws(route, header, Thrown(422, "validation"))

HandlerFails(route, header) ==
  \/ /\ route \in {"read", "write"}
     /\ \E status \in {400, 404, 409, 503}, body \in {"literal", "framework"} :
          Throws(route, header, Thrown(status, body))
  \/ /\ route = "probe"
     /\ Throws(route, header, Thrown(503, "framework"))
  \/ /\ route # "missing"
     /\ Throws(route, header, Thrown(500, "none"))

HandlerSucceeds(route, header) ==
  /\ route # "missing"
  /\ EndedBy("route", Envelope(route, header))

\* A request that sets no cookie.
Request(route, header, sendsToken) ==
  /\ \/ BodyIsRejected(route, header)
     \/ CsrfRefuses(route, header, sendsToken)
     \/ /\ Admitted(route, sendsToken)
        /\ \/ RouteIsMissing(route, header)
           \/ ThrottlerRefuses(route, header) \/ SessionGuardsRefuse(route, header)
           \/ ValidationFails(route, header)
           \/ /\ route \notin {"session", "token"}
              /\ HandlerFails(route, header) \/ HandlerSucceeds(route, header)
  /\ UNCHANGED <<enabled, jar, response, seeded>>

-----------------------------------------------------------------------------
(* Seeding.                                                                *)

UsedIds == {jar.id, jar.token} \cup {response[s].token : s \in Seedings}

EnsureIdentifierCookie_NotSeen ==
  IF jar.id # NoId THEN [set |-> NoId, seen |-> jar.id]
  ELSE [set |-> CHOOSE id \in Identifiers : id \notin UsedIds, seen |-> NoId]

\* A new identifier is set in the response and seen by what follows.
EnsureIdentifierCookie ==
  IF jar.id # NoId THEN [set |-> NoId, seen |-> jar.id]
  ELSE LET id == CHOOSE id \in Identifiers : id \notin UsedIds
       IN [set |-> id, seen |-> id]

\* generateCsrfToken: a token cookie that was made for the identifier the
\* request has is set again, any other replaced by a new one.
GenerateCsrfToken(identifier) ==
  IF jar.token # NoId /\ jar.token = identifier THEN jar.token ELSE identifier

Overlaps(s) == \E t \in Seedings \ {s} : response[t].sent

\* createToken; cookies that were set stay set when the handler fails.
CreateToken(s) ==
  LET identifier == EnsureIdentifierCookie
      others == [t \in Seedings |-> [response[t] EXCEPT !.alone = FALSE]]
  IN /\ response' = [others EXCEPT ![s] =
                       [id |-> identifier.set, token |-> GenerateCsrfToken(identifier.seen),
                        alone |-> ~Overlaps(s), sent |-> TRUE]]
     /\ seeded' = FALSE

\* getSession seeds before it looks for a session.
GetSession(s, header) ==
  /\ IF enabled THEN CreateToken(s) ELSE UNCHANGED <<response, seeded>>
  /\ \/ HandlerSucceeds("session", header)
     \/ \E exception \in {Thrown(401, "framework"), Thrown(500, "none")} :
          Throws("session", header, exception)

GetToken(s, header) ==
  \/ /\ enabled
     /\ CreateToken(s)
     /\ HandlerSucceeds("token", header)
  \/ /\ ~enabled
     /\ Throws("token", header, [Thrown(503, "key") EXCEPT !.key = "CSRF_DISABLED"])
     /\ UNCHANGED <<response, seeded>>

Seed(s, header) ==
  /\ ~response[s].sent
  /\ GetSession(s, header) \/ GetToken(s, header)
  /\ UNCHANGED <<enabled, jar>>

\* The browser stores the cookies of a response when it arrives.
ResponseArrives(s) ==
  /\ response[s].sent
  /\ jar' = [id |-> IF response[s].id = NoId THEN jar.id ELSE response[s].id,
             token |-> response[s].token]
  /\ response' = [response EXCEPT ![s] = NoResponse]
  /\ seeded' = response[s].alone
  /\ UNCHANGED <<enabled, reply>>

\* Or the response is lost, and its cookies with it.
ResponseIsLost(s) ==
  /\ response[s].sent
  /\ response' = [response EXCEPT ![s] = NoResponse]
  /\ UNCHANGED <<enabled, jar, seeded, reply>>

\* The browser drops a cookie; a seeding under way relied on it.
CookieIsDropped ==
  /\ \/ jar.id # NoId /\ jar' = [jar EXCEPT !.id = NoId]
     \/ jar.token # NoId /\ jar' = [jar EXCEPT !.token = NoId]
  /\ response' = [s \in Seedings |-> [response[s] EXCEPT !.alone = FALSE]]
  /\ seeded' = FALSE
  /\ UNCHANGED <<enabled, reply>>

-----------------------------------------------------------------------------
HttpNext ==
  \/ \E route \in Routes, header \in Headers, sendsToken \in BOOLEAN :
       Request(route, header, sendsToken)
  \/ \E s \in Seedings, header \in Headers : Seed(s, header)
  \/ \E s \in Seedings : ResponseArrives(s) \/ ResponseIsLost(s)
  \/ CookieIsDropped

HttpSpec == HttpInit /\ [][HttpNext]_httpVars

-----------------------------------------------------------------------------
\* A client that seeded its cookies with a request that overlapped no other
\* seeding, and sends the token back, is not refused by the CSRF boundary,
\* whatever overlapping seedings, lost responses and dropped cookies left in
\* its jar before.
SeededClientsAreAdmitted == ~(reply.refused /\ reply.entitled)

\* Whatever ends a request, an envelope's message is written in a language
\* the request rates highest, and the answer has the form of its route: an
\* application route never answers a native body, and a probe always does
\* once its request reached the guards.  The exception: what the body
\* parsers, the CSRF boundary or the router ends is enveloped whatever its
\* route, for nothing has marked the response yet.
AnswersKeepTheirContract ==
  /\ reply.form = "native" <=> reply.native /\ reply.by \notin {"parser", "csrf", "router"}
  /\ reply.form = "envelope" => reply.language \in reply.preferred
=============================================================================
