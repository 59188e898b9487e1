---------------------------- MODULE BulletinPages ----------------------------
(***************************************************************************)
(* web::WebServer::bulletin_get and the links, forms and redirects that    *)
(* lead to it (src/web_server.cpp): readers turn the pages of a bulletin   *)
(* to which others post.  A page is one SELECT, newest message first, with *)
(* a LIMIT and an OFFSET computed from the page number, so a page is       *)
(* consistent, but two pages are not with each other.                      *)
(*                                                                         *)
(* A message is its id, 1 to n.  Browsers are external: they follow the    *)
(* links of the page they show, resolve a relative Location against its    *)
(* URL, and their users may type a URL.                                    *)
(***************************************************************************)
EXTENDS Integers, FiniteSets

CONSTANTS
    Readers,
    LoggedIn,     \* readers whose browser holds a cookie: their page has a form
    Limit,        \* 10, the messages of a page
    IntMax,       \* 2^31 - 1
    Typed,        \* page numbers users type
    MaxMessages,  \* bound on the messages
    Contention,   \* whether statements may end with SQLITE_BUSY
    None

Ints == (-IntMax - 1)..IntMax

ASSUME PagesAssumption ==
    /\ LoggedIn \subseteq Readers
    /\ Limit \in Nat \ {0} /\ IntMax \in Nat /\ MaxMessages \in Nat
    /\ MaxMessages + Limit <= IntMax
    /\ Typed \subseteq 0..IntMax
    /\ Contention \in BOOLEAN

VARIABLES
    n,      \* number of messages
    view,   \* what each reader's browser shows
    walk,   \* history of a reader who began at page 1 and pressed Next since,
            \* whatever came: messages there at its start, those seen, number
            \* shown; or None
    tame,   \* history: since the last /bulletin, no page typed, no post from /bulletin/N
    down    \* an exception ended the process

vars == <<n, view, walk, tame, down>>

Blank == [kind |-> "none", numbered |-> FALSE, page |-> 1, shown |-> {}, own |-> 0]

Init == /\ n = 0
        /\ view = [r \in Readers |-> Blank]
        /\ walk = [r \in Readers |-> None]
        /\ tame = [r \in Readers |-> TRUE]
        /\ down = FALSE

(* int arithmetic, which wraps in the build. *)
Wrap(x) == ((x + IntMax + 1) % (2 * (IntMax + 1))) - (IntMax + 1)

MutOffset(page) == Wrap(page * Limit)  \* mutant: pages count from 0

MutOverlap(page) == Wrap(Wrap(page - 1) * (Limit - 1))  \* mutant: off by one row

(* The OFFSET; SQLite takes a negative one for 0. *)
Offset(page) == Wrap(Wrap(page - 1) * Limit)

MutListing(page) ==  \* mutant: one row too many
    {m \in 1..n : n - m >= Offset(page) /\ n - m <= (IF Offset(page) < 0 THEN 0 ELSE Offset(page)) + Limit}

MutListingAsc(page) ==  \* mutant: oldest first
    {m \in 1..n : m > Offset(page) /\ m <= (IF Offset(page) < 0 THEN 0 ELSE Offset(page)) + Limit}

(* getBulletinContentHTML: ORDER BY id DESC LIMIT Limit OFFSET Offset(page). *)
Listing(page) ==
    LET skipped == IF Offset(page) < 0 THEN 0 ELSE Offset(page)
    IN  {m \in 1..n : n - m >= skipped /\ n - m < skipped + Limit}

MutHasNext(v) == v.kind = "page" /\ v.shown # {}  \* mutant: an end without rows only

(* The links: `is_end` is set when fewer than Limit rows came. *)
HasNext(v) == v.kind = "page" /\ Cardinality(v.shown) = Limit
HasPrev(v) == v.kind \in {"page", "busy"} /\ v.page > 1

Page(kind, page, numbered, own) ==
    [kind |-> kind, numbered |-> numbered, page |-> page, own |-> own,
     shown |-> IF kind = "page" THEN Listing(page) ELSE {}]

(* bulletin_get: the page; or, on SQLITE_BUSY in sqlite3_step, a page that  *)
(* looks like an empty last one; or, in sqlite3_prepare_v2, an error page.  *)
Fetch(r, page, numbered, own) ==
    \E kind \in {"page"} \cup (IF Contention THEN {"busy", "error"} ELSE {}) :
        view' = [view EXCEPT ![r] = Page(kind, page, numbered, own)]

(* The history of a walk to which the page fetched is added, be it one that *)
(* a timeout left empty.                                                    *)
Walked(w, v) ==
    [w EXCEPT !.seen = @ \cup v.shown, !.count = @ + Cardinality(v.shown)]
NewWalk == [start |-> n, seen |-> {}, count |-> 0]

(* GET /bulletin *)
Open(r) ==
    /\ Fetch(r, 1, FALSE, 0)
    /\ walk' = [walk EXCEPT ![r] = Walked(NewWalk, view'[r])]
    /\ tame' = [tame EXCEPT ![r] = TRUE]
    /\ UNCHANGED <<n, down>>

(* GET /bulletin/<page>.  A page that is not all digits, like the minus     *)
(* sign of a link, leaves `page` uninitialised and goes on.                 *)
Visit(r, page) ==
    IF page >= 0 THEN Fetch(r, page, TRUE, 0)
    ELSE \E garbage \in Ints : Fetch(r, garbage, TRUE, 0)

FollowNext(r) ==
    /\ HasNext(view[r])
    /\ Visit(r, Wrap(view[r].page + 1))
    /\ walk' = [walk EXCEPT ![r] = IF @ = None THEN None ELSE Walked(@, view'[r])]
    /\ UNCHANGED <<n, tame, down>>

FollowPrev(r) ==
    /\ HasPrev(view[r])
    /\ Visit(r, view[r].page - 1)
    /\ walk' = [walk EXCEPT ![r] = None]
    /\ UNCHANGED <<n, tame, down>>

TypePage(r) ==
    /\ \E page \in Typed \cup {-1} : Visit(r, page)
    /\ walk' = [walk EXCEPT ![r] = None]
    /\ tame' = [tame EXCEPT ![r] = FALSE]
    /\ UNCHANGED <<n, down>>

(* Digits that are no int, or no digits at all: std::stoi throws. *)
TypeHuge(r) ==
    /\ down' = TRUE
    /\ UNCHANGED <<n, view, walk, tame>>

(* The form has no action: it posts to the URL of the page it is on.  The   *)
(* cookie may be one the server no longer knows, the write may be refused.  *)
Post(r) ==
    /\ r \in LoggedIn /\ view[r].kind \in {"page", "busy"} /\ n < MaxMessages
    /\ \/ /\ n' = n + 1
          /\ view' = [view EXCEPT ![r] = [Blank EXCEPT !.kind = "sent", !.own = n + 1,
                                                       !.numbered = view[r].numbered]]
       \/ /\ view' = [view EXCEPT ![r] = Page("error", 1, view[r].numbered, 0)]
          /\ UNCHANGED n
    /\ walk' = [walk EXCEPT ![r] = None]
    /\ UNCHANGED <<tame, down>>

(* The answer to a post is 303 with the relative Location "bulletin": from  *)
(* /bulletin that is /bulletin, from /bulletin/2 it is /bulletin/bulletin.  *)
Redirect(r) ==
    /\ view[r].kind = "sent"
    /\ \/ /\ ~view[r].numbered
          /\ Fetch(r, 1, FALSE, view[r].own)
          /\ walk' = [walk EXCEPT ![r] = Walked(NewWalk, view'[r])]
          /\ UNCHANGED tame
       \/ /\ view[r].numbered
          /\ \E garbage \in Ints : Fetch(r, garbage, TRUE, view[r].own)
          /\ tame' = [tame EXCEPT ![r] = FALSE]
          /\ UNCHANGED walk
    /\ UNCHANGED <<n, down>>

Next == /\ ~down
        /\ \E r \in Readers :
               \/ Open(r) \/ FollowNext(r) \/ FollowPrev(r)
               \/ TypePage(r) \/ TypeHuge(r) \/ Post(r) \/ Redirect(r)

Spec == Init /\ [][Next]_vars

-----------------------------------------------------------------------------
Messages == 1..MaxMessages

TypeOK ==
    /\ n \in 0..MaxMessages
    /\ view \in [Readers -> [kind : {"none", "page", "busy", "error", "sent"},
                             numbered : BOOLEAN, page : Ints,
                             shown : SUBSET Messages, own : 0..MaxMessages]]
    /\ \A r \in Readers : Cardinality(view[r].shown) <= Limit
    /\ walk \in [Readers -> [start : 0..MaxMessages, seen : SUBSET Messages, count : Nat]
                            \cup {None}]
    /\ tame \in [Readers -> BOOLEAN]
    /\ down \in BOOLEAN

(* A reader begins at the first page and presses Next.  Of the messages     *)
(* there at the beginning the reader has seen the newest ones at any time,  *)
(* with no gap, however many were posted meanwhile, since posts shift       *)
(* messages to later pages only; and all of them when the SELECT of a page  *)
(* without a Next went through.  A page whose SELECT timed out has no Next  *)
(* either and looks like an empty last one ("busy"), or is an error page:   *)
(* it ends the walk early, and what the reader then misses are the oldest.  *)
NothingSkipped ==
    \A r \in Readers : walk[r] # None =>
        /\ \A m \in walk[r].seen, later \in 1..walk[r].start :
               later > m => later \in walk[r].seen
        /\ view[r].kind = "page" /\ ~HasNext(view[r])
               => 1..walk[r].start \subseteq walk[r].seen

(* Such a reader sees a message twice no more often than a message was      *)
(* posted during the walk.                                                  *)
RepeatsAreBoundedByPosts ==
    \A r \in Readers : walk[r] # None =>
        walk[r].count - Cardinality(walk[r].seen) <= n - walk[r].start

(* Who posts is redirected to a page with the new message on it, and misses *)
(* it for one of three reasons only: others have posted a whole page since; *)
(* the SELECT of that page timed out, which gives an empty bulletin or an   *)
(* error page; or the form was on /bulletin/N, and the relative redirect    *)
(* asks for /bulletin/bulletin, any page at all.                            *)
OwnPostShown ==
    \A r \in Readers :
        LET v == view[r]
        IN  v.own # 0 /\ v.kind # "sent" =>
                \/ v.own \in v.shown
                \/ Cardinality(v.shown) = Limit /\ \A m \in v.shown : m > v.own
                \/ v.kind \in {"busy", "error"} /\ v.shown = {}
                \/ v.numbered

(* Links lead a reader who types no page number, and posts from /bulletin   *)
(* only, to pages that exist, or to the one right after a full last page:   *)
(* never to the garbage of an uninitialised page.                           *)
LinksLeadToPages ==
    \A r \in Readers : tame[r] /\ view[r].kind = "page" =>
        /\ view[r].page >= 1
        /\ (view[r].page - 1) * Limit <= n
=============================================================================
