----------------------------- MODULE Favourites -----------------------------
(****************************************************************************)
(* Favourite teams on the scoreboard of domjudge.js: toggle and             *)
(* initFavouriteTeams, with the answers that render the scoreboard anew.    *)
(*                                                                          *)
(* The favourites are a list in localStorage that all tabs share.  A tab    *)
(* shows copies of the rows of the favourites above the rows of the board;  *)
(* a heart calls toggle() with the place of its row on the board, not with  *)
(* the team.  Rows of the mobile scoreboard without a team are left out, as *)
(* toggle() filters them away.                                              *)
(****************************************************************************)
EXTENDS Naturals, Sequences, FiniteSets, SequencesExt

CONSTANTS
    Team,
    ScoreboardTab,
    Boards,             \* scoreboards the server may send: lists of teams
    MaxFavourites       \* bound on the length of the list of favourites

ASSUME FavouritesAssumption ==
    /\ Boards \subseteq Seq(Team) /\ Boards # {}
    /\ \A b \in Boards : \A i, k \in 1..Len(b) : b[i] = b[k] => i = k
    /\ MaxFavourites \in Nat

VARIABLES
    favTeams,           \* the list in localStorage
    rows,               \* the rows each tab shows, without the header
    board,              \* the scoreboard as the server would send it
    rendering,          \* tabs that wait for the answer to a click
    staleClick          \* a heart was clicked in a tab that did not show the list

favouritesVars == <<favTeams, rows, board, rendering, staleClick>>

IsFavourite(t) == t \in Range(favTeams)

(* A loop that copies the entries of a list that are in a set.              *)
Copied(list, kept) ==
    LET Copy(copies, x) == IF x \in kept THEN Append(copies, x) ELSE copies
    IN FoldLeft(Copy, <<>>, list)

(* Mutant: places are counted from 0.                                       *)
TeamRowFromZero(b, i) == [team |-> b[i], id |-> i - 1, show |-> ~IsFavourite(b[i])]

(* A row of the board; its heart calls toggle(id, show).                    *)
TeamRow(b, i) == [team |-> b[i], id |-> i, show |-> ~IsFavourite(b[i])]

(* initFavouriteTeams() on a new scoreboard.                                *)
initFavouriteTeams(b) ==
    LET boardRows == [i \in 1..Len(b) |-> TeamRow(b, i)]
        found == {row \in Range(boardRows) : IsFavourite(row.team)}
    IN Copied(boardRows, found) \o boardRows

FavouritesTypeOK ==
    /\ favTeams \in Seq(Team)
    /\ rows \in [ScoreboardTab -> Seq([team : Team, id : Nat, show : BOOLEAN])]
    /\ board \in Boards /\ rendering \subseteq ScoreboardTab /\ staleClick \in BOOLEAN

FavouritesInit ==
    /\ favTeams = <<>> /\ board \in Boards
    /\ rows = [tab \in ScoreboardTab |-> initFavouriteTeams(board)]
    /\ rendering = {} /\ staleClick = FALSE

(* Entries of the list with a row in this tab.                              *)
VisCnt(tab) ==
    Cardinality({i \in 1..Len(favTeams) : \E n \in 1..Len(rows[tab]) :
                     rows[tab][n].team = favTeams[i]})

(* The tab was rendered with the favourites that are stored now.            *)
ShowsStored(tab) ==
    \A n \in 1..Len(rows[tab]) : rows[tab][n].show = ~IsFavourite(rows[tab][n].team)

(* toggle(): the row is looked up among the rows shown, after the header    *)
(* and the copies; beyond the last row the handler fails.                   *)
toggle(tab, n) ==
    LET row == rows[tab][n]
        at == row.id + VisCnt(tab)
    IN /\ Len(favTeams) < MaxFavourites \/ ~row.show
       /\ IF at \in 1..Len(rows[tab])
          THEN LET team == rows[tab][at].team
               IN /\ favTeams' = IF row.show THEN Append(favTeams, team)
                                 ELSE Copied(favTeams, Range(favTeams) \ {team})
                  /\ rendering' = rendering \union {tab}
          ELSE UNCHANGED <<favTeams, rendering>>
       /\ staleClick' = (staleClick \/ ~ShowsStored(tab))
       /\ UNCHANGED <<rows, board>>

(* The answer to a click, or to a request of the automatic refresh.         *)
RenderScoreboard(tab) ==
    /\ rows' = [rows EXCEPT ![tab] = initFavouriteTeams(board)]
    /\ rendering' = rendering \ {tab}
    /\ UNCHANGED <<favTeams, board, staleClick>>

(* Teams overtake each other, or another filter is selected.                *)
ChangeBoard(b) ==
    /\ board' = b
    /\ UNCHANGED <<favTeams, rows, rendering, staleClick>>

FavouritesNext ==
    \/ \E tab \in ScoreboardTab :
           \/ RenderScoreboard(tab)
           \/ \E n \in 1..Len(rows[tab]) : toggle(tab, n)
    \/ \E new \in Boards : ChangeBoard(new)

FavouritesSpec == FavouritesInit /\ [][FavouritesNext]_favouritesVars

----------------------------------------------------------------------------
(* A click on a heart adds or removes the team of its row and no other, if  *)
(* the tab shows the stored favourites and all clicks before were such      *)
(* clicks, whatever teams are filtered out and wherever their rows are.     *)
TogglesClickedTeam ==
    [][\A tab \in ScoreboardTab : \A n \in 1..Len(rows[tab]) :
           toggle(tab, n) /\ ~staleClick' =>
               LET row == rows[tab][n]
               IN Range(favTeams') = IF row.show THEN Range(favTeams) \union {row.team}
                                     ELSE Range(favTeams) \ {row.team}]_favouritesVars
=============================================================================
