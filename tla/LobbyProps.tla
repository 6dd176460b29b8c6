------------------------------ MODULE LobbyProps ------------------------------
(* What a lobby promises to the visitors who create games. *)
EXTENDS Lobby

\* "Creation is idempotent" (README.md:237-238): however a request is repeated, lost or
\* served late, in one page or after a reload, a visitor gets one game for a form.
OneGamePerForm ==
    \A g, h \in GameIds :
        games[g].form = games[h].form /\ games[g].form # NoForm => g = h

\* "Visitors can choose a map, title, entry price, creator fee" (README.md:209): the
\* game a page announces is the one its last request described.
GameAsAsked ==
    [][\A v \in Pages :
         pages'[v].link # NoGame /\ pages[v].link = NoGame
            => games[pages'[v].link].form = posts[v].request.form]_vars

\* "Your game is ready. Share its link and join" (static/lobby.js:203): the game a
\* page announces can be joined.
AnnouncedIsOpen ==
    [][\A v \in Pages :
         pages'[v].link # NoGame /\ pages[v].link = NoGame
            => games[pages'[v].link].status = "active"]_vars

\* The lobby is full, or the bounds of the model are reached.
UsedUp == \/ Cardinality(Crowd) >= Limit
          \/ \A g \in GameIds : games[g].status # "none"
          \/ Nonces \subseteq drawn

\* A visitor who tries again whenever an attempt fails gets the game, whatever is
\* lost or fails on the way: no request stays pending for ever, in the page or in
\* what it has stored.
WantedIsCreated ==
    \A v \in Pages, f \in Forms :
        pages[v].form = f ~> \/ f \in done \/ pages[v].form # f \/ UsedUp
                             \/ Fee[f] + setting.haircut > MaxTotalHaircut
=============================================================================
