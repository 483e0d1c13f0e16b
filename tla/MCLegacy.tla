------------------------------ MODULE MCLegacy ------------------------------
(* Small instances of LegacyApp for TLC: up to five calls in each setting.    *)
EXTENDS LegacyApp, TLC

CONSTANTS c1, c2, c3, c4, c5, e1, e2, d1, x1, i1, i2, any, p1, p2, url

MCCalls == {c1, c2, c3, c4, c5}

None == [op |-> "none"]
Intent == [op |-> "intent", event |-> e1, donor |-> d1, long |-> TRUE]
Checkout(tooLong) == [op |-> "checkout", event |-> e1, donor |-> d1, long |-> tooLong]
Succeeded == [op |-> "succeeded", of |-> c1]
SessionDone == [op |-> "session", of |-> c1]
Direct == [op |-> "direct", event |-> e1, donor |-> d1]
Donor == [op |-> "createDuser", donor |-> d1]
Event(name) == [op |-> "createEvent", event |-> name]
Page == [op |-> "page", event |-> e1]
UploadTo(event, people) ==
  [op |-> "upload", event |-> event, cuser |-> x1, people |-> people]
Index(event, people) == [op |-> "index", event |-> event, source |-> url, people |-> people]
SearchIn(event) == [op |-> "search", event |-> event, people |-> {p1}]
UrlSearch(people) == [op |-> "urlSearch", event |-> any, source |-> url, people |-> people]
DeleteOf(image) == [op |-> "delete", image |-> image]
SearchImage(people) == [op |-> "searchImage", image |-> i1, event |-> any, people |-> people]
Photographer == [op |-> "createCuser", cuser |-> x1]
Clear == [op |-> "clear"]

\* Images i1 and i2 of events e1 and e2, each with a readable face, i2 with a corrupt
\* one too; a leaderboard row from before payments had a status.
Image(event) == [source |-> url, event |-> event, processed |-> TRUE]
Setting(w, y, z, v, l) ==
  [calls |-> (c1 :> w) @@ (c2 :> y) @@ (c3 :> z) @@ (c4 :> v) @@ (c5 :> l),
   faults |-> FALSE, deaths |-> 0,
   events |-> {e1, e2}, donors |-> {d1}, cusers |-> {x1}, board |-> <<>>,
   images |-> (i1 :> Image(e1)) @@ (i2 :> Image(e2)),
   faces |-> {<<i1, p1>>, <<i2, p1>>, <<i2, p2>>}, corrupt |-> {<<i2, p2>>}]

Fragile(setting) == [setting EXCEPT !.faults = TRUE, !.deaths = 2]
Bare(setting) ==
  [setting EXCEPT !.events = {}, !.donors = {}, !.cusers = {}, !.images = <<>>,
                  !.faces = {}, !.corrupt = {}]
Older(setting) ==
  [setting EXCEPT !.board = i1 :> [of |-> NoIntent, event |-> e1, donor |-> d1, status |-> "pending"]]

MCScenes ==
  { Fragile(Setting(Intent, Succeeded, Succeeded, Page, Direct)),
    Fragile(Setting(Checkout(FALSE), Succeeded, SessionDone, Succeeded, Page)),
    Setting(Checkout(TRUE), Succeeded, SessionDone, Page, None),
    Fragile(Bare(Setting(Checkout(FALSE), Succeeded, Event(e1), Donor, Succeeded))),
    Bare(Setting(Intent, Succeeded, Event(e1), Donor, Page)),
    Older(Setting(Intent, Succeeded, Page, Direct, Page)),
    Setting([op |-> "donate"], [op |-> "cart"], Direct, Page, None),
    Bare(Fragile(Setting(Photographer, Event(e1), UploadTo(e1, {p1}), None, None))),
    Fragile(Setting(UploadTo(e1, {p1, p2}), DeleteOf(c1), SearchIn(e1), None, None)),
    Setting(UploadTo(e1, {p1}), UploadTo(e2, {}), SearchIn(e2), Clear, UploadTo(e2, {p1})),
    Fragile(Setting(Index(e1, {p1, p2}), Index(e2, {p1}), SearchIn(e2), None, None)),
    Setting(Index(e1, {p1}), UrlSearch({p1}), SearchIn(e1), DeleteOf(i1), SearchIn(any)),
    Fragile(Setting(UrlSearch({p1}), UrlSearch({}), SearchIn(any), DeleteOf(c1), None)),
    Fragile(Setting(SearchImage({}), SearchImage({p1}), SearchIn(any), Clear, None)),
    Bare(Setting(Index(e1, {p1}), UploadTo(e1, {p2}), Photographer, Event(e1), SearchIn(e1))) }
=============================================================================
