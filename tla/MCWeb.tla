------------------------------- MODULE MCWeb -------------------------------
(* Small instances of WebServer for TLC. *)
EXTENDS WebServer

CONSTANTS r1, r2, r3, r4, b1, b2, b3, ann, bob, cid, p, q

MCNames == {ann, bob, cid, p, q}

Three  == {r1, r2, r3}
Four   == {r1, r2, r3, r4}
Two    == {b1, b2}
AllBrowsers == {b1, b2, b3}

MCAsk(b, kind, account, password) ==
    [browser |-> b, kind |-> kind, account |-> account, password |-> password,
     complete |-> TRUE]
Cut(ask) == [ask EXCEPT !.complete = FALSE]
Signup(b, a, x) == MCAsk(b, "signup", a, x)
Login(b, a, x)  == MCAsk(b, "login", a, x)
Bare(b, kind)   == MCAsk(b, kind, ann, p)

(* Two signups, perhaps for one account, or a signup and a post, and any  *)
(* third request.                                                        *)
Signups == [r \in Three |->
    CASE r = r1 -> {Signup(b1, ann, p)}
      [] r = r2 -> {Signup(b2, ann, q), Signup(b2, bob, p), Bare(b1, "whoami")}
      [] r = r3 -> {Login(b1, ann, p), Login(b2, ann, q), Signup(b1, bob, q)}
                   \cup {Cut(Signup(b1, cid, p)), Cut(Login(b2, ann, p)), Cut(Bare(b1, "whoami"))}
                   \cup {Bare(b1, k) : k \in {"whoami", "get", "logout"}}]

(* Two signups for one account, then a login; or then a post. *)
Race == [r \in Three |->
    CASE r = r1 -> {Signup(b1, ann, p)}
      [] r = r2 -> {Signup(b2, ann, q)}
      [] r = r3 -> {Login(b2, ann, q), Bare(b1, "whoami")}]

(* Three users sign up, and one posts. *)
Collision == [r \in Four |->
    CASE r = r1 -> {Signup(b1, ann, p)}
      [] r = r2 -> {Signup(b2, bob, p)}
      [] r = r3 -> {Signup(b3, cid, p)}
      [] r = r4 -> {Bare(b3, "whoami")}]

(* Two users who log in again, from either browser, while one posts. *)
Sessions == [r \in Four |->
    CASE r = r1 -> {Signup(b1, ann, p)}
      [] r = r2 -> {Signup(b2, bob, p)}
      [] r = r3 -> {Login(b1, ann, p), Login(b2, ann, p)}
      [] r = r4 -> {Bare(b1, "whoami"), Bare(b2, "whoami"), Bare(b2, "logout")}]
=============================================================================
