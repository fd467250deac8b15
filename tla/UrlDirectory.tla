----------------------------- MODULE UrlDirectory -----------------------------
(***************************************************************************)
(* What the URL service promises its clients, without the database, the    *)
(* cache, the connection pool or the processes that keep the promise:      *)
(*   - links are only ever added, and no two links share an alias;         *)
(*   - a 201 names a link to the URL of that very request, and no two 201  *)
(*     name the same link;                                                 *)
(*   - a 302 follows the link of the alias that was asked for;             *)
(*   - a 404 is never the answer for an alias that some client had already *)
(*     been given when the question was asked.                             *)
(* An error (400, 500) or no answer at all is always allowed, and says     *)
(* nothing about whether the link was published.                           *)
(***************************************************************************)
EXTENDS Naturals

CONSTANTS
  Posts,      \* POST /shorten requests
  Gets,       \* GET /:alias requests
  Aliases,
  Urls,
  Clean       \* [Urls -> Urls]: the URL that is published for a submitted one

VARIABLES
  body,       \* [Posts -> Urls]: the URL a POST submits
  path,       \* [Gets -> Aliases]: the alias a GET asks for
  directory,  \* the published links
  arrived,    \* the requests the service has begun to serve
  status,     \* [Posts \cup Gets -> HTTP status, 0 while there is no answer]
  link,       \* the link a 201 or a 302 names
  seen        \* [Gets -> aliases clients had been given when the GET arrived]

dirVars == <<body, path, directory, arrived, status, link, seen>>

Link == [alias : Aliases, url : Urls]

\* The aliases some client has been given by a 201.
GivenOut == {link[p].alias : p \in {q \in Posts : status[q] = 201}}

Init ==
  /\ body \in [Posts -> Urls]
  /\ path \in [Gets -> Aliases]
  /\ directory = {}
  /\ arrived = {}
  /\ status = [r \in Posts \cup Gets |-> 0]
  /\ link = [r \in Posts \cup Gets |-> {}]
  /\ seen = [g \in Gets |-> {}]

Arrive(r) ==
  /\ r \notin arrived
  /\ arrived' = arrived \cup {r}
  /\ seen' = IF r \in Gets THEN [seen EXCEPT ![r] = GivenOut] ELSE seen
  /\ UNCHANGED <<body, path, directory, status, link>>

\* The link of a request becomes visible, whatever the request will be told.
Publish(p) ==
  /\ p \in arrived
  /\ status[p] = 0
  /\ \E a \in Aliases :
       /\ \A l \in directory : l.alias # a
       /\ directory' = directory \cup {[alias |-> a, url |-> Clean[body[p]]]}
  /\ UNCHANGED <<body, path, arrived, status, link, seen>>

Answer(r, s, l) ==
  /\ r \in arrived
  /\ status[r] = 0
  /\ status' = [status EXCEPT ![r] = s]
  /\ link' = [link EXCEPT ![r] = l]
  /\ UNCHANGED <<body, path, directory, arrived, seen>>

Created(p) ==
  \E l \in directory :
    /\ l.url = Clean[body[p]]
    /\ l.alias \notin GivenOut
    /\ Answer(p, 201, l)

Found(g) ==
  \E l \in directory : l.alias = path[g] /\ Answer(g, 302, l)

Missing(g) == path[g] \notin seen[g] /\ Answer(g, 404, {})

Failed(r) == Answer(r, 500, {})

\* Refused before anything is done for it: arrival and answer are one step.
Refused(r) ==
  /\ r \notin arrived
  /\ arrived' = arrived \cup {r}
  /\ status' = [status EXCEPT ![r] = 400]
  /\ UNCHANGED <<body, path, directory, link, seen>>

Next ==
  \/ \E r \in Posts \cup Gets : Arrive(r) \/ Refused(r) \/ Failed(r)
  \/ \E p \in Posts : Publish(p) \/ Created(p)
  \/ \E g \in Gets : Found(g) \/ Missing(g)

Spec == Init /\ [][Next]_dirVars

------------------------------------------------------------------------------
(* What the steps add up to *)

\* No two links share an alias, and no two POSTs were given the same one.
NoAliasTwice ==
  /\ \A l, m \in directory : l.alias = m.alias => l = m
  /\ \A p, q \in Posts :
       status[p] = 201 /\ status[q] = 201 /\ link[p].alias = link[q].alias => p = q

\* A 201 names a link that was published for its own request, a 302 one of the alias
\* that was asked for.
AnswersName ==
  /\ \A p \in Posts : status[p] = 201 => link[p] \in directory /\ link[p].url = Clean[body[p]]
  /\ \A g \in Gets : status[g] = 302 => link[g] \in directory /\ link[g].alias = path[g]

\* A 404 denies no alias that had been given out when it was asked for.
NothingDenied == \A g \in Gets : status[g] = 404 => path[g] \notin seen[g]

Promise == NoAliasTwice /\ AnswersName /\ NothingDenied

================================================================================
