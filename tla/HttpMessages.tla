---------------------------- MODULE HttpMessages ----------------------------
(***************************************************************************)
(* What browser and server tell each other (src/src/http.cpp, the          *)
(* dispatch of web_server.cpp, serveFile with IO.cpp): the browser formats *)
(* a request from its cookies, the page and the form; response_thread sees *)
(* the part of it that one recv returns; the server parses it, a handler   *)
(* fills in a response, and the browser takes status and cookies from the  *)
(* header.                                                                 *)
(*                                                                         *)
(* A message is a sequence of tokens: the characters the parser looks at   *)
(* (blank, line ends, / = ; & and digits) and words it only compares.  A   *)
(* request may be cut between any two tokens.  What the database says is   *)
(* left to WebServer: a handler's answer is any that its code can give.    *)
(***************************************************************************)
EXTENDS Integers, SequencesExt

CONSTANTS Digits,      \* the digits of cookie values
          Values,      \* the values the server gives to the cookie uuid
          Pages,       \* the paths a browser asks for, as sequences of words
          Files,       \* those of them that are files under ROOT_DIR
          Methods,     \* the methods a browser uses
          NoPage,      \* the redirect target of a response that is none
          Lifetime,    \* hours until a cookie expires (8 in getResponseHeader)
          MaxClock     \* bound: hours the clock runs

Uuid == <<"uu", "id">>     \* the name of the cookie; two tokens, it may be cut
Theme == <<"theme">>       \* a cookie of another server on the same host

Blank == " "
Semicolon == ";"

\* What the parser looks for in a request.
Delimiters == {Blank, "\r", "\n", "/", "=", Semicolon, "&"}

ASSUME ValuesAssumption == Values \subseteq Seq(Digits) \ {<<>>} /\ Digits \cap Delimiters = {}
ASSUME ClockAssumption == Lifetime \in Nat \ {0} /\ MaxClock \in Nat
ASSUME FilesAssumption == Files \subseteq Pages

\* A browser escapes delimiters in a path; its methods are words of their own,
\* and it knows GET.
ASSUME PagesAssumption == Pages \subseteq Seq(STRING \ Delimiters)
ASSUME MethodsAssumption == Methods \cap (Delimiters \cup {"Cookie:"}) = {} /\ "GET" \in Methods

VARIABLES jar,      \* the cookies of others on this host, in the browser
          uuid,     \* the value of the server's cookie in the browser, <<>> for none
          first,    \* it comes before those of others
          expires,  \* when it expires
          clock,    \* hours
          sent,     \* what the browser asks: method, page, cookies, form
          request,  \* the tokens recv returned, <<>> when nothing is asked
          reply,    \* the response header as the browser reads it, or <<>>
          issued,   \* the uuid the server issued last, <<>> for none
          down      \* an exception ended the server

vars == <<jar, uuid, first, expires, clock, sent, request, reply, issued, down>>

(***************************************************************************)
(* The browser's side                                                      *)
(***************************************************************************)
Line(ts) == ts \o <<"\r", "\n">>

\* Pairs in one line, with a separator between them.
Listed(pairs, between) ==
  FlattenSeq([i \in DOMAIN pairs |-> (IF i = 1 THEN <<>> ELSE between)
                                       \o pairs[i].name \o <<"=">> \o pairs[i].value])

CookieLine(cookies) ==
  IF cookies = <<>> THEN <<>>
  ELSE Line(<<"Cookie:", Blank>> \o Listed(cookies, <<Semicolon, Blank>>))

Path(page) ==
  IF page = <<>> THEN <<"/">> ELSE FlattenSeq([i \in DOMAIN page |-> <<"/", page[i]>>])

Format(q) ==
  Line(<<q.method, Blank>> \o Path(q.page) \o <<Blank, "HTTP/1.1">>)
    \o Line(<<"Host:", Blank, "host">>)
    \o CookieLine(q.cookies)
    \o Line(<<>>)
    \o Listed(q.form, <<"&">>)

Form(page) ==
  CASE page = <<"bulletin">> -> << [name |-> <<"message">>, value |-> <<"hello", "+", "world">>] >>
    [] page \in {<<"login">>, <<"signup">>} ->
         << [name |-> <<"account">>, value |-> <<"ann">>],
            [name |-> <<"password">>, value |-> <<"pass", "word">>] >>
    [] OTHER -> <<>>

(***************************************************************************)
(* Parsing                                                                 *)
(***************************************************************************)
\* std::getline with a delimiter until it fails: what follows the last delimiter
\* is a piece only if there is something.
Pieces(s, delimiter) ==
  LET next(r, t) == IF t = delimiter THEN [done |-> Append(r.done, r.rest), rest |-> <<>>]
                    ELSE [done |-> r.done, rest |-> Append(r.rest, t)]
      read[i \in 0 .. Len(s)] ==
        IF i = 0 THEN [done |-> <<>>, rest |-> <<>>] ELSE next(read[i - 1], s[i])
      end == read[Len(s)]
  IN IF end.rest = <<>> THEN end.done ELSE Append(end.done, end.rest)

\* std::string::find, 0 for npos.
Find(s, token) == SelectInSeq(s, LAMBDA t : t = token)

\* std::map::insert keeps the value a name already has.
FirstOfEach(pairs) ==
  [n \in {pairs[i].name : i \in DOMAIN pairs} |->
     pairs[CHOOSE i \in DOMAIN pairs : pairs[i].name = n
             /\ \A j \in 1 .. i - 1 : pairs[j].name # n].value]

MutCookiePair(p) ==  \* mutant: no allowance for the carriage return
  LET equal == Find(p, "=")
      semi == Find(p, Semicolon)
  IN [name |-> IF equal = 0 THEN p ELSE SubSeq(p, 1, equal - 1),
      value |-> SubSeq(p, equal + 1, IF semi = 0 THEN Len(p) ELSE semi - 1)]

\* One pair of a Cookie line.  Without a semicolon the last character goes: it is
\* the carriage return, when the pair is the last of a whole line.
CookiePair(p) ==
  LET equal == Find(p, "=")
      semi == Find(p, Semicolon)
  IN [name |-> IF equal = 0 THEN p ELSE SubSeq(p, 1, equal - 1),
      value |-> IF semi = 0 THEN SubSeq(p, equal + 1, Len(p) - 1)
                            ELSE SubSeq(p, equal + 1, semi - 1)]

PairsIn(line) ==
  LET words == Pieces(line, Blank)
  IN IF words # <<>> /\ words[1] = <<"Cookie:">>
     THEN [k \in 1 .. Len(words) - 1 |-> CookiePair(words[k + 1])] ELSE <<>>

parseCookie(lines) == FirstOfEach(FlattenSeq([i \in DOMAIN lines |-> PairsIn(lines[i])]))

\* The pairs of a form are in the last line, whatever that is.
parsePostArg(lines) ==
  LET pairs == Pieces(Last(lines), "&")
      part(p, k) == IF k <= Len(Pieces(p, "=")) THEN Pieces(p, "=")[k] ELSE <<>>
  IN FirstOfEach([k \in DOMAIN pairs |-> [name |-> part(pairs[k], 1), value |-> part(pairs[k], 2)]])

parseServices(firstRow) ==
  LET words == Pieces(firstRow, Blank)
  IN IF Len(words) < 2 THEN <<>> ELSE FlattenSeq(Tail(Pieces(words[2], "/")))

parseHttpRequest(r) ==
  LET lines == Pieces(r, "\n")
      method == IF Head(r) \in {"GET", "POST"} THEN Head(r) ELSE "UNDEFINED"
  IN [method |-> method,
      services |-> parseServices(lines[1]),
      cookie |-> parseCookie(lines),
      form |-> IF method = "POST" THEN parsePostArg(lines) ELSE << >>]

-----------------------------------------------------------------------------
(***************************************************************************)
(* Answering                                                               *)
(***************************************************************************)
\* HTTPResponse, value-initialised: status_code 0 is STATUS_OK.
Empty == [status |-> "OK", location |-> NoPage, cookie |-> <<>>, logout |-> FALSE, file |-> <<>>]

serveFile(file) ==
  CASE ".." \in ToSet(file) ->
         [Empty EXCEPT !.file = <<"http_error", "403.html">>, !.status = "FORBIDDEN"]
    [] file \in Files /\ ".." \notin ToSet(file) -> [Empty EXCEPT !.file = file]
    [] OTHER -> [Empty EXCEPT !.file = <<"http_error", "404.html">>, !.status = "NOT FOUND"]

Shown(file) == [Empty EXCEPT !.file = <<file>>]
errorPage == Shown("error.html")
Page500 == Shown("500.html")
Redirect(location) == [Empty EXCEPT !.status = "SEE OTHER", !.location = location]
WithCookie(response) == {[response EXCEPT !.cookie = v] : v \in Values}

MutisDigits(v) == TRUE  \* mutant: a cookie is taken for a number unseen
isDigits(v) == ToSet(v) \subseteq Digits
\* std::stoll finds no number to convert, and throws.
Unreadable(v) == ~\E d \in Digits : IsPrefix(<<d>>, v)

Cookies(req) == IF Uuid \in DOMAIN req.cookie THEN {req.cookie[Uuid]} ELSE {}
HasFields(req, names) == \A n \in names : <<n>> \in DOMAIN req.form

\* login_get and signup_get: who is logged in is sent to the index page.
FormPage(req, page) ==
  {Shown(page)} \cup (IF \E v \in Cookies(req) : isDigits(v) THEN {Redirect("index.html")} ELSE {})

login(req) ==
  CASE req.method = "GET" -> FormPage(req, "login.html")
    [] req.method = "POST" ->
         IF ~HasFields(req, {"account", "password"}) THEN {errorPage}
         ELSE {errorPage, Page500, Redirect("index.html")} \cup WithCookie(Redirect("index.html"))
    [] OTHER -> {Empty}

signup(req) ==
  CASE req.method = "GET" -> FormPage(req, "signup.html")
    [] req.method = "POST" ->
         IF ~HasFields(req, {"account", "password"}) THEN {errorPage}
         ELSE {errorPage, Page500, Redirect("signup_success.html")}
                \cup WithCookie(Redirect("signup_success.html"))
    [] OTHER -> {Empty}

logout(req) == {[Redirect("index.html") EXCEPT !.logout = TRUE, !.cookie = <<"0">>]}

bulletin(req) ==
  CASE req.method = "GET" -> {Shown("bulletin.html"), errorPage}
    [] req.method = "POST" ->
         IF ~HasFields(req, {"message"}) \/ Cookies(req) = {} THEN {errorPage}
         ELSE {errorPage, Redirect("bulletin")}
    [] OTHER -> {Empty}

\* A uuid reaches stoll in getIDByCookie: checked for digits by login and signup,
\* unchecked by bulletin_post, which has looked for the message before.
Throws(req) ==
  /\ req.services # <<>>
  /\ \E v \in Cookies(req) : Unreadable(v) /\
       \/ req.services[1] \in {"login", "signup"} /\ req.method = "GET" /\ isDigits(v)
       \/ req.services[1] = "bulletin" /\ req.method = "POST" /\ HasFields(req, {"message"})

render(req) ==
  IF req.services = <<>> THEN {[Shown("404.html") EXCEPT !.status = "NOT FOUND"]}
  ELSE CASE req.services[1] = "login" -> login(req)
         [] req.services[1] = "logout" -> logout(req)
         [] req.services[1] = "signup" -> signup(req)
         [] req.services[1] = "bulletin" -> bulletin(req)
         [] OTHER -> {serveFile(req.services)}

\* The time now, moved by two numbers of hours.
getHTTPDate(UTC, offset) == clock + UTC + offset

MutHeaderLogout(response) ==  \* mutant: a logout sets its cookie like a login
  [status |-> response.status, location |-> response.location, cookie |-> response.cookie,
   expires |-> getHTTPDate(0, Lifetime), file |-> response.file]

MutHeaderDate(response) ==  \* mutant: both hour offsets of getHTTPDate are given
  [status |-> response.status, location |-> response.location, cookie |-> response.cookie,
   expires |-> IF response.logout THEN 0 ELSE getHTTPDate(Lifetime, Lifetime), file |-> response.file]

\* The date of a logout is in the past: the cookie expires at once.  A page that
\* is forbidden gets no status line.
getResponseHeader(response) ==
  [status |-> IF response.status = "FORBIDDEN" THEN "" ELSE response.status,
   location |-> response.location,
   cookie |-> response.cookie,
   expires |-> IF response.logout THEN 0 ELSE getHTTPDate(0, Lifetime),
   file |-> response.file]

-----------------------------------------------------------------------------
NoRequest == [method |-> "GET", page |-> <<>>, cookies |-> <<>>, form |-> <<>>]

Init ==
  /\ jar \in {<<>>, << [name |-> Theme, value |-> <<"dark">>] >>}
  /\ uuid = <<>> /\ first = FALSE /\ expires = 0 /\ clock = 0
  /\ sent = NoRequest /\ request = <<>> /\ reply = <<>>
  /\ issued = <<>> /\ down = FALSE

\* The browser leaves out what has expired.
Fresh ==
  LET own == << [name |-> Uuid, value |-> uuid] >>
  IN IF uuid = <<>> \/ clock >= expires THEN jar
     ELSE IF first THEN own \o jar ELSE jar \o own

\* The browser asks; recv returns the request, or the first segment of it.
Ask(method, page) ==
  /\ request = <<>> /\ reply = <<>> /\ ~down
  /\ sent' = [method |-> method, page |-> page, cookies |-> Fresh,
              form |-> IF method = "POST" THEN Form(page) ELSE <<>>]
  /\ \E n \in 1 .. Len(Format(sent')) : request' = SubSeq(Format(sent'), 1, n)
  /\ UNCHANGED <<jar, uuid, first, expires, clock, reply, issued, down>>

\* response_thread: parse, render, send.
Respond ==
  LET req == parseHttpRequest(request) IN
  /\ request # <<>> /\ ~down
  /\ ~Throws(req)
  /\ \E response \in render(req) :
       /\ reply' = <<getResponseHeader(response)>>
       /\ issued' = IF response.cookie = <<>> THEN issued
                    ELSE IF response.logout THEN <<>> ELSE response.cookie
  /\ request' = <<>>
  /\ UNCHANGED <<jar, uuid, first, expires, clock, sent, down>>

\* Nobody catches what stoll throws in a pool thread.
RespondThrows ==
  /\ request # <<>> /\ ~down
  /\ Throws(parseHttpRequest(request))
  /\ down' = TRUE
  /\ UNCHANGED <<jar, uuid, first, expires, clock, sent, request, reply, issued>>

\* The browser takes the cookie and is ready for the next page.  The new one may
\* come before or after a cookie of somebody else.
Receive ==
  /\ reply # <<>>
  /\ IF reply[1].cookie = <<>> THEN UNCHANGED <<uuid, first, expires>>
     ELSE /\ expires' = reply[1].expires
          /\ IF clock < reply[1].expires
             THEN uuid' = reply[1].cookie /\ first' \in BOOLEAN
             ELSE uuid' = <<>> /\ UNCHANGED first
  /\ reply' = <<>>
  /\ UNCHANGED <<jar, clock, sent, request, issued, down>>

\* Time passes while the browser waits for its user.
Tick ==
  /\ clock < MaxClock /\ request = <<>> /\ reply = <<>>
  /\ clock' = clock + 1
  /\ UNCHANGED <<jar, uuid, first, expires, sent, request, reply, issued, down>>

Next == \/ \E method \in Methods, page \in Pages : Ask(method, page)
        \/ Respond \/ RespondThrows \/ Receive \/ Tick

Spec == Init /\ [][Next]_vars

-----------------------------------------------------------------------------
Asked == request # <<>>
Whole == request = Format(sent)
Parsed == parseHttpRequest(request)
NamesOf(pairs) == {pairs[i].name : i \in DOMAIN pairs}
ValueOf(pairs, n) == pairs[CHOOSE i \in DOMAIN pairs : pairs[i].name = n].value

\* Every variable has its type.
TypeOK ==
  /\ jar \in {<<>>, << [name |-> Theme, value |-> <<"dark">>] >>}
  /\ uuid \in Values \cup {<<>>} /\ first \in BOOLEAN
  /\ expires \in 0 .. MaxClock + Lifetime /\ clock \in 0 .. MaxClock
  /\ sent.method \in Methods /\ sent.page \in Pages \cup {<<>>}
  /\ Len(request) <= Len(Format(sent))
  /\ Len(reply) <= 1
  /\ issued \in Values \cup {<<>>}
  /\ down \in BOOLEAN

\* What the parser makes of a request that arrived whole is what the browser put
\* into it: page, every cookie in whatever order, every field of the form.  The
\* carriage return the last cookie ends with is gone, and nothing else.
WholeRequestsAreUnderstood ==
  (Asked /\ Whole) =>
    /\ Parsed.services = sent.page
    /\ DOMAIN Parsed.cookie = NamesOf(sent.cookies)
    /\ \A n \in NamesOf(sent.cookies) : Parsed.cookie[n] = ValueOf(sent.cookies, n)
    /\ Parsed.method = "POST" =>
         \A n \in NamesOf(sent.form) : n \in DOMAIN Parsed.form /\ Parsed.form[n] = ValueOf(sent.form, n)

\* Of a request that arrived in part, only the last cookie or field is affected:
\* it is a prefix of what was sent (a cookie cut right after its name has part of
\* the name for a value), all before it is whole, and fields of a form are seen
\* only when every cookie is whole.
OnlyTheLastIsCut ==
  Asked =>
    LET cookies == NamesOf(sent.cookies) \cap DOMAIN Parsed.cookie
        fields == NamesOf(sent.form) \cap DOMAIN Parsed.form
        cutCookies == {n \in cookies : Parsed.cookie[n] # ValueOf(sent.cookies, n)}
        cutFields == {n \in fields : Parsed.form[n] # ValueOf(sent.form, n)}
    IN /\ \A n \in cutCookies : /\ \/ IsPrefix(Parsed.cookie[n], ValueOf(sent.cookies, n))
                                   \/ Last(request) = Last(n) /\ Parsed.cookie[n] = Front(n)
                                /\ n = sent.cookies[Cardinality(cookies)].name
       /\ \A n \in cutFields : /\ IsPrefix(Parsed.form[n], ValueOf(sent.form, n))
                               /\ n = sent.form[Cardinality(fields)].name
       /\ fields # {} => cutCookies = {} /\ cookies = NamesOf(sent.cookies)

\* The uuid a whole request carries is the one the server issued last, through
\* Set-Cookie, the browser's jar, its Cookie line and the parser; after a logout,
\* and once it has expired, there is none.
UuidIsTheLastIssued ==
  (Asked /\ Whole) =>
    Cookies(Parsed) = IF issued = <<>> \/ clock >= expires THEN {} ELSE {issued}

\* stoll throws, and the server ends, only on a request cut in the value of uuid:
\* after the = or after the one digit that the parser then drops.
ThrowsOnlyOnCutCookie ==
  down => /\ ~Whole
          /\ \/ Last(request) = "="
             \/ Last(request) \in Digits /\ request[Len(request) - 1] = "="
=============================================================================
