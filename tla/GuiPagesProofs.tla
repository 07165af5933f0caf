--------------------------- MODULE GuiPagesProofs ---------------------------
(***************************************************************************)
(* The pages of the GUI for any number of threads, pages and charts, with   *)
(* the GUI thread and the key thread interleaved: a page is deleted once    *)
(* unless both threads removed its entry, what is shown can be closed, and  *)
(* what a page owned is gone with it.                                       *)
(***************************************************************************)
EXTENDS GuiPages, FiniteSetTheorems, TLAPS

Closing == {"unlink", "delete", "charts", "rows", "free"}
Building == {"fill", "row", "add"}
Empty == <<>>
Only(p) == <<p>>

(* The list holds at most the page that was opened last, and an actor that   *)
(* closes a page works on one that was opened.                               *)
Stack ==
  /\ \A p \in Page : p > opened => dels[p] = 0
  /\ shown \subseteq {opened}
  /\ \A p \in 1..opened : dels[p] = 0 => p \in shown
  /\ list = Empty \/ (list = Only(opened) /\ opened > 0 /\ dels[opened] = 0)
  /\ \A a \in Actor : /\ pc[a] \in Closing => obj[a] \in 1..opened
                      /\ pc[a] \in Closing \ {"unlink"} => list # Only(obj[a])
                      /\ Deleting(a) => dels[obj[a]] > 0 /\ obj[a] \in shown
  /\ ~(Deleting("gui") /\ Deleting("key"))
  /\ pc["gui"] \in Building =>
       /\ obj["gui"] = opened /\ opened > 0 /\ dels[opened] = 0 /\ list = Empty
       /\ pc["key"] \in Closing => obj["key"] # opened
       /\ pc["gui"] # "add" => kind[opened] = "cpu"
  /\ pc["key"] \in {"idle", "remove", "first", "wild"} \cup Closing

(* While no entry was removed twice, an actor that is about to delete a page *)
(* is the only one to do so.                                                 *)
Once ==
  ~same =>
    /\ \A p \in Page : dels[p] <= 1
    /\ \A a \in Actor : /\ At(a, "unlink") => list = Only(obj[a])
                        /\ At(a, "delete") => dels[obj[a]] = 0
    /\ At("gui", "delete") /\ At("key", "delete") => obj["gui"] # obj["key"]

(* Tasks, btn_infos and charts belong to a page that nobody has deleted, or  *)
(* that an actor is deleting and has not come to them.                       *)
Alive(p, S) == dels[p] = 0 \/ \E a \in Actor : pc[a] \in S /\ obj[a] = p
Owned ==
  /\ task # Null => task \in 1..opened /\ Alive(task, {"charts", "rows"})
  /\ \A i \in infos : /\ i[1] \in 1..opened /\ kind[i[1]] = "cpu"
                      /\ Alive(i[1], {"charts", "rows"})
  /\ charts # {} => opened > 0 /\ kind[opened] = "cpu" /\ Alive(opened, {"charts"})

(* A page that is shown is in the list or in the hands of an actor. *)
Held ==
  /\ \A p \in shown : dels[p] > 0 => \E a \in Actor : Deleting(a) /\ obj[a] = p
  /\ \A p \in shown :
       \/ failed \/ (pc["gui"] \in {"fill", "row", "add", "wild"} /\ obj["gui"] = p)
       \/ list = Only(p)
       \/ \E a \in Actor : obj[a] = p /\ (At(a, "delete") \/ Deleting(a))
  /\ pc["gui"] \in {"remove", "first"} => opened > 0 /\ kind[opened] = "cpu"
  /\ At("gui", "null") => list = Empty
  /\ pc["gui"] \in {"unlink", "delete", "charts", "rows"} =>
       kind[obj["gui"]] = "cpu" /\ obj["gui"] = opened

(* add_thread_list makes one button after the other. *)
Rows ==
  /\ row # {} => At("gui", "row")
  /\ \A t, u \in row : t = u

(* The accounts that the CPU page knows point at its btn_infos, and these at *)
(* charts that exist.                                                        *)
Filled ==
  /\ opened > 0 /\ kind[opened] = "cpu" /\ ~At("gui", "wild") =>
       \A t \in Thread : acct[t] = "live" /\ t \notin fresh =>
         \/ pc["gui"] \in {"fill", "row"} /\ t \in todo \cup row
         \/ udata[t] = opened /\ (dels[opened] = 0 => <<opened, t>> \in infos)
  /\ opened > 0 /\ dels[opened] = 0 =>
       \A t \in Thread : <<opened, t>> \in infos /\ chart[t] # Null => <<t, chart[t]>> \in charts
  /\ At("gui", "refresh") /\ ~cut => obj["gui"] = opened /\ opened > 0 /\ dels[opened] = 0
  /\ At("gui", "refresh") /\ todo # {} => obj["gui"] \in Page /\ kind[obj["gui"]] = "cpu"

Inv == TypeOK /\ Stack /\ Once /\ Owned /\ Held /\ Rows /\ Filled

-----------------------------------------------------------------------------
(* Lists of no and of one entry, and rt_list_remove on them. *)
LEMMA OneEntry ==
  /\ \A p, q : Only(p) = Only(q) => p = q
  /\ \A p : Only(p) # Empty /\ Head(Only(p)) = p /\ <<p>> \o Empty = Only(p)
BY DEF Only, Empty

LEMMA RemoveFromEmpty == \A e : RemoveFirst(Empty, e) = Empty
BY DEF RemoveFirst, Empty

LEMMA RemoveOwn == ASSUME NEW x PROVE RemoveFirst(Only(x), x) = Empty
<1>1. {i \in 1..Len(<<x>>) : <<x>>[i] = x} = {1}
  OBVIOUS
<1>2. Min({1}) = 1
  BY DEF Min
<1>3. RemoveAt(<<x>>, 1) = <<>>
  BY DEF RemoveAt
<1>4. QED
  BY <1>1, <1>2, <1>3 DEF RemoveFirst, SelectInSeq, Only, Empty

LEMMA RemoveOther == ASSUME NEW x, NEW y, x # y PROVE RemoveFirst(Only(x), y) = Only(x)
BY DEF RemoveFirst, SelectInSeq, Only

(* What is left of the list when an actor takes its entry off. *)
LEMMA EntryGone ==
  ASSUME Stack, NEW a \in Actor, RemoveEntry(a)
  PROVE  list' = IF list = Only(obj[a]) THEN Empty ELSE list
<1>1. CASE list = Empty
  BY <1>1, RemoveFromEmpty, OneEntry DEF RemoveEntry
<1>2. CASE list = Only(opened) /\ opened = obj[a]
  BY <1>2, RemoveOwn DEF RemoveEntry
<1>3. CASE list = Only(opened) /\ opened # obj[a]
  BY <1>3, RemoveOther, OneEntry DEF RemoveEntry
<1>4. QED
  BY <1>1, <1>2, <1>3 DEF Stack

-----------------------------------------------------------------------------
(* Every step of the two threads keeps the types. *)
LEMMA PagesStep ==
  ASSUME PagesOK, Stack, [Next]_vars
  PROVE  PagesOK'
<1> USE GuiPagesAssumption DEF PagesOK, Page, Null, Kind, Actor, objects, entries, cpu,
     ghost, At, Goes, Holds
<1>1. CASE (\E t \in Thread : Account(t) \/ Cleanup(t) \/ Unlink(t))
  BY <1>1 DEF Account, Cleanup, Unlink
<1>2. CASE Linked \/ Cancel \/ EndTask \/ ClickDying \/ (\E t \in Thread : Visit(t))
  BY <1>2 DEF Linked, Cancel, EndTask, ClickDying, Visit
<1>3. CASE (\E t \in Thread : OpenChart(t) \/ CloseChart(t))
  BY <1>3 DEF OpenChart, CloseChart
<1>4. CASE (\E a \in Actor : DeleteChart(a) \/ DeleteRow(a))
  BY <1>4 DEF DeleteChart, DeleteRow
<1>5. ASSUME NEW t \in Thread, TakeRow(t) PROVE PagesOK'
  BY <1>5 DEF TakeRow
<1>6. ASSUME NEW t \in Thread, EndRow(t) PROVE PagesOK'
  BY <1>6 DEF EndRow
<1>7. ASSUME NEW k \in Kind, Open(k) PROVE PagesOK'
  BY <1>7 DEF Open
<1>8. CASE EndFill
  BY <1>8 DEF EndFill, Stack, Building
<1>9. CASE Link
  BY <1>9 DEF Link
<1>10. CASE CloseClick
  BY <1>10 DEF CloseClick
<1>11. CASE RunTask
  <2>1. CASE Deleting("key")
    BY <1>11, <2>1 DEF RunTask
  <2>2. CASE ~Deleting("key")
    BY <1>11, <2>2 DEF RunTask, Deleting
  <2>3. QED
    BY <2>1, <2>2
<1>12. ASSUME NEW a \in Actor, TestEmpty(a) PROVE PagesOK'
  BY <1>12 DEF TestEmpty
<1>13. ASSUME NEW a \in Actor, ReadFirst(a) PROVE PagesOK'
  BY <1>13, OneEntry DEF ReadFirst, Stack, Empty
<1>14. ASSUME NEW a \in Actor, RemoveEntry(a) PROVE PagesOK'
  <2>1. same' \in BOOLEAN
    BY <1>14, Zenon DEF RemoveEntry
  <2>2. QED
    BY <1>14, <2>1 DEF RemoveEntry
<1>15. ASSUME NEW a \in Actor, DeleteBegin(a) PROVE PagesOK'
  <2>1. cut' \in BOOLEAN
    BY <1>15, Zenon DEF DeleteBegin
  <2>2. pc[a] \in Closing /\ obj[a] \in Page
    BY <1>15 DEF DeleteBegin, Stack, Closing
  <2>3. dels' \in [Page -> Nat]
    BY <1>15, <2>2 DEF DeleteBegin
  <2>4. QED
    BY <1>15, <2>1, <2>3, SMTT(30) DEF DeleteBegin
<1>16. ASSUME NEW a \in Actor, DeleteClose(a) PROVE PagesOK'
  BY <1>16 DEF DeleteClose
<1>17. ASSUME NEW a \in Actor, DeletePage(a) PROVE PagesOK'
  BY <1>17 DEF DeletePage
<1>18. CASE UNCHANGED vars
  BY <1>18 DEF vars
<1>19. QED
  BY <1>1, <1>2, <1>3, <1>4, <1>5, <1>6, <1>7, <1>8, <1>9, <1>10, <1>11, <1>12, <1>13,
     <1>14, <1>15, <1>16, <1>17, <1>18 DEF Next

(* ... and so do the variables of the CPU page. *)
LEMMA CpuStep ==
  ASSUME PagesOK, Stack, CpuOK, [Next]_vars
  PROVE  CpuOK'
<1> USE GuiPagesAssumption DEF CpuOK, Page, Null, Wild, Kind, Actor, objects, entries,
     cpu, ghost, At, Goes, Holds
<1>1. CASE Linked \/ Cancel \/ EndTask \/ Link \/ CloseClick \/ ClickDying
         \/ EndFill
  BY <1>1 DEF Linked, Cancel, EndTask, Link, CloseClick, ClickDying, EndFill
<1>2. CASE (\E a \in Actor : TestEmpty(a) \/ ReadFirst(a) \/ RemoveEntry(a)
         \/ DeleteBegin(a) \/ DeleteClose(a) \/ DeletePage(a))
  BY <1>2 DEF TestEmpty, ReadFirst, RemoveEntry, DeleteBegin, DeleteClose, DeletePage
<1>3. ASSUME NEW t \in Thread, Account(t) PROVE CpuOK'
  BY <1>3 DEF Account
<1>4. ASSUME NEW t \in Thread, Cleanup(t) PROVE CpuOK'
  BY <1>4 DEF Cleanup
<1>5. ASSUME NEW t \in Thread, Unlink(t) PROVE CpuOK'
  BY <1>5 DEF Unlink
<1>6. ASSUME NEW t \in Thread, TakeRow(t) PROVE CpuOK'
  BY <1>6 DEF TakeRow
<1>7. ASSUME NEW t \in Thread, EndRow(t) PROVE CpuOK'
  <2>1. obj["gui"] = opened /\ opened \in Page
    BY <1>7 DEF EndRow, PagesOK, Stack, Building
  <2>2. CASE acct[t] = "live"
    BY <1>7, <2>1, <2>2 DEF EndRow
  <2>3. CASE acct[t] # "live"
    BY <1>7, <2>3 DEF EndRow
  <2>4. QED
    BY <2>2, <2>3
<1>8. ASSUME NEW t \in Thread, Visit(t) PROVE CpuOK'
  BY <1>8 DEF Visit
<1>9. ASSUME NEW t \in Thread, OpenChart(t) PROVE CpuOK'
  BY <1>9 DEF OpenChart
<1>10. ASSUME NEW t \in Thread, CloseChart(t) PROVE CpuOK'
  BY <1>10 DEF CloseChart
<1>11. ASSUME NEW k \in Kind, Open(k) PROVE CpuOK'
  BY <1>11 DEF Open, Accounts, Listed
<1>12. CASE RunTask
  BY <1>12 DEF RunTask, Accounts
<1>13. ASSUME NEW a \in Actor, DeleteChart(a) PROVE CpuOK'
  BY <1>13 DEF DeleteChart
<1>14. ASSUME NEW a \in Actor, DeleteRow(a) PROVE CpuOK'
  BY <1>14 DEF DeleteRow
<1>15. CASE UNCHANGED vars
  BY <1>15 DEF vars
<1>16. QED
  BY <1>1, <1>2, <1>3, <1>4, <1>5, <1>6, <1>7, <1>8, <1>9, <1>10, <1>11, <1>12, <1>13,
     <1>14, <1>15 DEF Next

(* No step leaves more than the last page in the list. *)
LEMMA StackStep ==
  ASSUME PagesOK, Stack, [Next]_vars
  PROVE  Stack'
<1> USE GuiPagesAssumption, OneEntry DEF PagesOK, Stack, Closing, Building, Deleting,
     Page, Null, Kind, Actor, objects, entries, cpu, ghost, At, Goes, Holds
<1>1. CASE (\E t \in Thread : Account(t) \/ Cleanup(t) \/ Unlink(t))
  BY <1>1, ZenonT(60) DEF Account, Cleanup, Unlink
<1>2. CASE Linked \/ Cancel \/ EndTask \/ ClickDying \/ (\E t \in Thread : Visit(t))
  BY <1>2, ZenonT(60) DEF Linked, Cancel, EndTask, ClickDying, Visit
<1>3. ASSUME NEW t \in Thread, TakeRow(t) PROVE Stack'
  BY <1>3 DEF TakeRow
<1>4. ASSUME NEW t \in Thread, EndRow(t) PROVE Stack'
  BY <1>4 DEF EndRow
<1>5. ASSUME NEW t \in Thread, OpenChart(t) PROVE Stack'
  BY <1>5 DEF OpenChart
<1>6. ASSUME NEW t \in Thread, CloseChart(t) PROVE Stack'
  BY <1>6 DEF CloseChart
<1>7. ASSUME NEW k \in Kind, Open(k) PROVE Stack'
  BY <1>7 DEF Open
<1>8. CASE EndFill
  BY <1>8 DEF EndFill
<1>9. CASE Link
  <2>1. CASE list' = <<obj["gui"]>> \o list /\ Goes("gui", "link")
    <3>1. list' = Only(opened) /\ opened > 0 /\ dels[opened] = 0
      BY <1>9, <2>1 DEF Link
    <3>2. \A b \in Actor : pc[b] \in Closing => b = "key" /\ obj[b] # opened
      BY <1>9 DEF Link
    <3>3. QED
      BY <1>9, <2>1, <3>1, <3>2 DEF Link
  <2>2. CASE Goes("gui", "idle") /\ UNCHANGED entries
    BY <1>9, <2>2 DEF Link
  <2>3. QED
    BY <1>9, <2>1, <2>2 DEF Link
<1>10. CASE CloseClick
  BY <1>10 DEF CloseClick
<1>11. CASE RunTask
  BY <1>11 DEF RunTask
<1>12. ASSUME NEW a \in Actor, TestEmpty(a) PROVE Stack'
  BY <1>12 DEF TestEmpty
<1>13. ASSUME NEW a \in Actor, ReadFirst(a) PROVE Stack'
  BY <1>13 DEF ReadFirst, Empty
<1>14. ASSUME NEW a \in Actor, RemoveEntry(a) PROVE Stack'
  BY <1>14, EntryGone, ZenonT(60) DEF RemoveEntry
<1>15. ASSUME NEW a \in Actor, DeleteBegin(a) PROVE Stack'
  <2>1. /\ pc[a] = "delete" /\ obj[a] \in 1..opened /\ dels' = [dels EXCEPT ![obj[a]] = @ + 1]
        /\ UNCHANGED <<opened, kind, shown, list, obj>>
    BY <1>15 DEF DeleteBegin
  <2>2. \E q \in {"wild", "charts", "free"} :
           pc' = [pc EXCEPT ![a] = q] /\ (q # "wild" => dels[obj[a]] = 0)
    <3>1. CASE dels[obj[a]] > 0
      BY <1>15, <3>1 DEF DeleteBegin
    <3>2. CASE dels[obj[a]] = 0
      BY <1>15, <3>2 DEF DeleteBegin
    <3>3. QED
      BY <2>1, <3>1, <3>2
  <2>3. dels[obj[a]] = 0 => obj[a] \in shown /\ obj[a] = opened
    BY <2>1
  <2>4. dels[obj[a]] = 0 => ~Deleting("gui") /\ ~Deleting("key")
    BY <2>3
  <2>5. obj[a] \in Page /\ dels'[obj[a]] > 0 /\ \A p \in Page : p # obj[a] => dels'[p] = dels[p]
    BY <2>1
  <2>6. list = Only(opened) => opened # obj[a]
    BY <2>1
  <2>7. QED
    BY <2>1, <2>2, <2>3, <2>4, <2>5, <2>6, SMTT(60)
<1>16. ASSUME NEW a \in Actor, DeleteChart(a) PROVE Stack'
  BY <1>16 DEF DeleteChart
<1>17. ASSUME NEW a \in Actor, DeleteRow(a) PROVE Stack'
  BY <1>17 DEF DeleteRow
<1>18. ASSUME NEW a \in Actor, DeleteClose(a) PROVE Stack'
  BY <1>18 DEF DeleteClose
<1>19. ASSUME NEW a \in Actor, DeletePage(a) PROVE Stack'
  <2>1. dels[obj[a]] > 0 /\ obj[a] \in 1..opened
    BY <1>19 DEF DeletePage
  <2>2. \A p \in 1..opened : dels[p] = 0 => p \in shown /\ p # obj[a]
    BY <2>1
  <2>3. \A p \in 1..opened' : dels'[p] = 0 => p \in shown'
    BY <1>19, <2>2 DEF DeletePage
  <2>4. shown' \subseteq {opened'}
    BY <1>19 DEF DeletePage
  <2>5. \A b \in Actor : b # a => ~Deleting(b)
    BY <1>19 DEF DeletePage
  <2>6. QED
    BY <1>19, <2>3, <2>4, <2>5 DEF DeletePage
<1>20. CASE UNCHANGED vars
  BY <1>20 DEF vars
<1>21. QED
  BY <1>1, <1>2, <1>3, <1>4, <1>5, <1>6, <1>7, <1>8, <1>9, <1>10, <1>11, <1>12, <1>13,
     <1>14, <1>15, <1>16, <1>17, <1>18, <1>19, <1>20 DEF Next

(* A page is deleted by one actor as long as no entry is removed twice. *)
LEMMA OnceStep ==
  ASSUME PagesOK, Stack, Once, [Next]_vars
  PROVE  Once'
<1> USE GuiPagesAssumption, OneEntry DEF PagesOK, Stack, Once, Closing, Building, Page,
     Null, Kind, Actor, objects, entries, cpu, ghost, At, Goes, Holds
<1>1. CASE (\E t \in Thread : Account(t) \/ Cleanup(t) \/ Unlink(t))
  BY <1>1 DEF Account, Cleanup, Unlink
<1>2. CASE Linked \/ Cancel \/ EndTask \/ ClickDying \/ (\E t \in Thread : Visit(t))
  BY <1>2 DEF Linked, Cancel, EndTask, ClickDying, Visit
<1>3. CASE (\E t \in Thread : OpenChart(t) \/ CloseChart(t))
         \/ (\E a \in Actor : DeleteChart(a) \/ DeleteRow(a))
  BY <1>3 DEF OpenChart, CloseChart, DeleteChart, DeleteRow
<1>4. CASE EndFill \/ CloseClick \/ RunTask \/ (\E t \in Thread : TakeRow(t)
         \/ EndRow(t))
  BY <1>4 DEF TakeRow, EndRow, EndFill, CloseClick, RunTask
<1>5. CASE (\E a \in Actor : TestEmpty(a) \/ DeleteClose(a) \/ DeletePage(a))
  BY <1>5 DEF TestEmpty, DeleteClose, DeletePage
<1>6. ASSUME NEW k \in Kind, Open(k) PROVE Once'
  BY <1>6 DEF Open
<1>7. CASE Link
  BY <1>7 DEF Link
<1>8. ASSUME NEW a \in Actor, ReadFirst(a) PROVE Once'
  BY <1>8 DEF ReadFirst, Empty
<1>9. ASSUME NEW a \in Actor, RemoveEntry(a) PROVE Once'
  <2> SUFFICES ASSUME ~same' PROVE Once'
    OBVIOUS
  <2>1. ~same /\ ~(pc[Other(a)] = "unlink" /\ obj[Other(a)] = obj[a])
    BY <1>9, Zenon DEF RemoveEntry
  <2>2. list = Only(obj[a]) /\ obj[a] = opened /\ dels[obj[a]] = 0
    BY <1>9, <2>1 DEF RemoveEntry
  <2>3. pc[Other(a)] # "unlink" /\ ~(pc[Other(a)] = "delete" /\ obj[Other(a)] = obj[a])
    BY <2>1, <2>2 DEF Other
  <2>4. QED
    BY <1>9, <2>1, <2>2, <2>3 DEF RemoveEntry, Other
<1>10. ASSUME NEW a \in Actor, DeleteBegin(a) PROVE Once'
  BY <1>10 DEF DeleteBegin
<1>11. CASE UNCHANGED vars
  BY <1>11 DEF vars
<1>12. QED
  BY <1>1, <1>2, <1>3, <1>4, <1>5, <1>6, <1>7, <1>8, <1>9, <1>10, <1>11 DEF Next

(* Deleting a page deletes what belongs to it, and nothing else is lost. *)
LEMMA OwnedStep ==
  ASSUME PagesOK, Stack, Owned, Held, [Next]_vars
  PROVE  Owned'
<1> USE GuiPagesAssumption DEF PagesOK, Stack, Owned, Alive, Closing, Building, Deleting,
     Page, Null, Kind, Actor, objects, entries, cpu, ghost, At, Goes, Holds
<1>1. CASE (\E t \in Thread : Account(t) \/ Cleanup(t) \/ Unlink(t))
  BY <1>1 DEF Account, Cleanup, Unlink
<1>2. CASE Linked \/ Cancel \/ EndTask \/ ClickDying \/ (\E t \in Thread : Visit(t))
  BY <1>2 DEF Linked, Cancel, EndTask, ClickDying, Visit
<1>3. CASE CloseClick \/ Link \/ RunTask \/ EndFill
         \/ (\E t \in Thread : TakeRow(t))
  BY <1>3 DEF CloseClick, Link, RunTask, TakeRow, EndFill
<1>4. ASSUME NEW t \in Thread, EndRow(t) PROVE Owned'
  BY <1>4 DEF EndRow
<1>5. ASSUME NEW t \in Thread, OpenChart(t) PROVE Owned'
  BY <1>5 DEF OpenChart
<1>6. ASSUME NEW t \in Thread, CloseChart(t) PROVE Owned'
  BY <1>6 DEF CloseChart
<1>7. ASSUME NEW k \in Kind, Open(k) PROVE Owned'
  BY <1>7 DEF Open
<1>8. ASSUME NEW a \in Actor, TestEmpty(a) PROVE Owned'
  BY <1>8 DEF TestEmpty
<1>9. ASSUME NEW a \in Actor, ReadFirst(a) PROVE Owned'
  BY <1>9 DEF ReadFirst
<1>10. ASSUME NEW a \in Actor, RemoveEntry(a) PROVE Owned'
  BY <1>10 DEF RemoveEntry
<1>11. ASSUME NEW a \in Actor, DeleteBegin(a) PROVE Owned'
  BY <1>11 DEF DeleteBegin
<1>12. ASSUME NEW a \in Actor, DeleteChart(a) PROVE Owned'
  BY <1>12 DEF DeleteChart
<1>13. ASSUME NEW a \in Actor, DeleteRow(a) PROVE Owned'
  BY <1>13 DEF DeleteRow
<1>14. ASSUME NEW a \in Actor, DeleteClose(a) PROVE Owned'
  BY <1>14 DEF DeleteClose
<1>15. ASSUME NEW a \in Actor, DeletePage(a) PROVE Owned'
  BY <1>15 DEF DeletePage
<1>16. CASE UNCHANGED vars
  BY <1>16 DEF vars
<1>17. QED
  BY <1>1, <1>2, <1>3, <1>4, <1>5, <1>6, <1>7, <1>8, <1>9, <1>10, <1>11, <1>12, <1>13,
     <1>14, <1>15, <1>16 DEF Next

(* Held is about the pages, the list and the two actors only. *)
LEMMA HeldFrame ==
  ASSUME Held, UNCHANGED <<shown, dels, list, pc, obj, failed, opened, kind>>
  PROVE  Held'
BY DEF Held, At, Deleting

(* A page that is shown never gets out of reach. *)
LEMMA HeldStep ==
  ASSUME PagesOK, Stack, Once, Held, [Next]_vars
  PROVE  Held'
<1> USE GuiPagesAssumption, OneEntry DEF PagesOK, Stack, Held, Closing, Building,
     Deleting, Page, Null, Kind, Actor, objects, entries, cpu, ghost, At, Goes,
     Holds
<1>1. CASE (\E t \in Thread : Account(t) \/ Cleanup(t) \/ Unlink(t) \/ Visit(t)
         \/ OpenChart(t) \/ CloseChart(t))
  BY <1>1, HeldFrame DEF Account, Cleanup, Unlink, Visit, OpenChart, CloseChart
<1>2. ASSUME NEW t \in Thread, TakeRow(t) PROVE Held'
  BY <1>2 DEF TakeRow
<1>3. ASSUME NEW t \in Thread, EndRow(t) PROVE Held'
  BY <1>3 DEF EndRow
<1>4. ASSUME NEW k \in Kind, Open(k) PROVE Held'
  BY <1>4 DEF Open
<1>5. CASE EndFill
  BY <1>5 DEF EndFill
<1>6. CASE Link
  <2>1. CASE list' = <<obj["gui"]>> \o list /\ Goes("gui", "link")
    <3>1. list' = Only(opened) /\ shown \subseteq {opened} /\ dels[opened] = 0
      BY <1>6, <2>1 DEF Link
    <3>2. QED
      BY <1>6, <2>1, <3>1 DEF Link
  <2>2. CASE failed' = TRUE /\ Goes("gui", "idle") /\ UNCHANGED entries
    BY <1>6, <2>2 DEF Link
  <2>3. QED
    BY <1>6, <2>1, <2>2 DEF Link
<1>7. CASE Linked
  BY <1>7 DEF Linked
<1>8. CASE Cancel
  BY <1>8 DEF Cancel
<1>9. CASE CloseClick
  BY <1>9 DEF CloseClick
<1>10. CASE ClickDying
  BY <1>10 DEF ClickDying
<1>11. CASE RunTask
  BY <1>11 DEF RunTask
<1>12. CASE EndTask
  BY <1>12 DEF EndTask
<1>13. ASSUME NEW a \in Actor, TestEmpty(a) PROVE Held'
  BY <1>13 DEF TestEmpty, Empty
<1>14. ASSUME NEW a \in Actor, ReadFirst(a) PROVE Held'
  BY <1>14 DEF ReadFirst, Empty
<1>15. ASSUME NEW a \in Actor, RemoveEntry(a) PROVE Held'
  <2>1. list' = IF list = Only(obj[a]) THEN Empty ELSE list
    BY <1>15, EntryGone
  <2>2. /\ UNCHANGED <<shown, dels, obj, failed, opened, kind>>
        /\ pc[a] = "unlink" /\ pc' = [pc EXCEPT ![a] = "delete"]
    BY <1>15 DEF RemoveEntry
  <2>3. \A p \in shown : dels[p] > 0 => \E b \in Actor : Deleting(b)' /\ obj[b] = p
    BY <2>2
  <2>4. \A p \in shown :
           \/ failed \/ (pc'["gui"] \in {"fill", "row", "add", "wild"} /\ obj["gui"] = p)
           \/ list' = Only(p)
           \/ \E b \in Actor : obj[b] = p /\ (pc'[b] = "delete" \/ Deleting(b)')
    BY <2>1, <2>2
  <2>5. /\ pc'["gui"] \in {"remove", "first"} => opened > 0 /\ kind[opened] = "cpu"
        /\ pc'["gui"] = "null" => list' = Empty
        /\ pc'["gui"] \in {"unlink", "delete", "charts", "rows"} =>
             kind[obj["gui"]] = "cpu" /\ obj["gui"] = opened
    BY <2>1, <2>2
  <2>6. QED
    BY <2>2, <2>3, <2>4, <2>5
<1>16. ASSUME NEW a \in Actor, DeleteBegin(a) PROVE Held'
  BY <1>16 DEF DeleteBegin
<1>17. ASSUME NEW a \in Actor, DeleteChart(a) PROVE Held'
  BY <1>17 DEF DeleteChart
<1>18. ASSUME NEW a \in Actor, DeleteRow(a) PROVE Held'
  BY <1>18, HeldFrame DEF DeleteRow
<1>19. ASSUME NEW a \in Actor, DeleteClose(a) PROVE Held'
  BY <1>19 DEF DeleteClose
<1>20. ASSUME NEW a \in Actor, DeletePage(a) PROVE Held'
  BY <1>20 DEF DeletePage
<1>21. CASE UNCHANGED vars
  BY <1>21 DEF vars
<1>22. QED
  BY <1>1, <1>2, <1>3, <1>4, <1>5, <1>6, <1>7, <1>8, <1>9, <1>10, <1>11, <1>12, <1>13,
     <1>14, <1>15, <1>16, <1>17, <1>18, <1>19, <1>20, <1>21 DEF Next

(* add_thread_list has one button in the making. *)
LEMMA RowsStep ==
  ASSUME PagesOK, Rows, [Next]_vars
  PROVE  Rows'
<1> USE GuiPagesAssumption DEF PagesOK, Rows, Actor, objects, entries, cpu, ghost, At,
     Goes, Holds
<1>1. CASE (\E t \in Thread : Account(t) \/ Cleanup(t) \/ Unlink(t) \/ Visit(t)
         \/ OpenChart(t) \/ CloseChart(t))
  BY <1>1 DEF Account, Cleanup, Unlink, Visit, OpenChart, CloseChart
<1>2. CASE Linked \/ Cancel \/ EndTask \/ ClickDying \/ CloseClick \/ Link
         \/ RunTask \/ EndFill
  BY <1>2 DEF Linked, Cancel, EndTask, ClickDying, CloseClick, Link, RunTask, EndFill
<1>3. CASE (\E a \in Actor : TestEmpty(a) \/ ReadFirst(a) \/ RemoveEntry(a)
         \/ DeleteBegin(a) \/ DeleteChart(a) \/ DeleteRow(a) \/ DeleteClose(a)
         \/ DeletePage(a))
  BY <1>3 DEF TestEmpty, ReadFirst, RemoveEntry, DeleteBegin, DeleteChart, DeleteRow,
     DeleteClose, DeletePage
<1>4. ASSUME NEW t \in Thread, TakeRow(t) PROVE Rows'
  BY <1>4 DEF TakeRow
<1>5. ASSUME NEW t \in Thread, EndRow(t) PROVE Rows'
  BY <1>5 DEF EndRow
<1>6. ASSUME NEW k \in Kind, Open(k) PROVE Rows'
  BY <1>6 DEF Open
<1>7. CASE UNCHANGED vars
  BY <1>7 DEF vars
<1>8. QED
  BY <1>1, <1>2, <1>3, <1>4, <1>5, <1>6, <1>7 DEF Next

(* The CPU page keeps up with the accounts it was filled with. *)
LEMMA FilledStep ==
  ASSUME PagesOK, CpuOK, Stack, Owned, Rows, Filled, [Next]_vars
  PROVE  Filled'
<1> USE GuiPagesAssumption, OneEntry DEF PagesOK, CpuOK, Stack, Owned, Alive, Rows,
     Filled, Closing, Building, Deleting, Page, Null, Wild, Kind, Actor, objects,
     entries, cpu, ghost, At, Goes, Holds
<1>1. ASSUME NEW t \in Thread, Account(t) PROVE Filled'
  BY <1>1 DEF Account
<1>2. ASSUME NEW t \in Thread, Cleanup(t) PROVE Filled'
  BY <1>2 DEF Cleanup
<1>3. ASSUME NEW t \in Thread, Unlink(t) PROVE Filled'
  BY <1>3 DEF Unlink
<1>4. ASSUME NEW t \in Thread, TakeRow(t) PROVE Filled'
  BY <1>4 DEF TakeRow
<1>5. ASSUME NEW t \in Thread, EndRow(t) PROVE Filled'
  BY <1>5 DEF EndRow
<1>6. ASSUME NEW t \in Thread, Visit(t) PROVE Filled'
  BY <1>6 DEF Visit
<1>7. ASSUME NEW t \in Thread, OpenChart(t) PROVE Filled'
  BY <1>7 DEF OpenChart
<1>8. ASSUME NEW t \in Thread, CloseChart(t) PROVE Filled'
  BY <1>8 DEF CloseChart
<1>9. ASSUME NEW k \in Kind, Open(k) PROVE Filled'
  BY <1>9 DEF Open, Accounts, Listed
<1>10. CASE EndFill
  BY <1>10 DEF EndFill
<1>11. CASE Link
  BY <1>11 DEF Link
<1>12. CASE Linked
  BY <1>12 DEF Linked
<1>13. CASE Cancel
  BY <1>13 DEF Cancel
<1>14. CASE CloseClick
  BY <1>14 DEF CloseClick
<1>15. CASE ClickDying
  BY <1>15 DEF ClickDying
<1>16. CASE RunTask
  <2>1. /\ pc["gui"] = "idle" /\ task # Null /\ pc' = [pc EXCEPT !["gui"] = "refresh"]
        /\ obj' = [obj EXCEPT !["gui"] = task]
        /\ todo' = (IF kind[task] = "cpu" THEN Accounts ELSE {})
        /\ UNCHANGED <<objects, infos, udata, chart, charts, acct, row, fresh>>
    BY <1>16 DEF RunTask
  <2>2. task \in 1..opened /\ opened \in Page
    BY <2>1
  <2>3. ~Deleting("key") => dels[task] = 0 /\ task = opened
    BY <2>1, <2>2
  <2>4. ~cut' => ~Deleting("key")
    BY <1>16, Zenon DEF RunTask
  <2>5. QED
    BY <2>1, <2>2, <2>3, <2>4
<1>17. CASE EndTask
  BY <1>17 DEF EndTask
<1>18. ASSUME NEW a \in Actor, TestEmpty(a) PROVE Filled'
  BY <1>18 DEF TestEmpty
<1>19. ASSUME NEW a \in Actor, ReadFirst(a) PROVE Filled'
  BY <1>19 DEF ReadFirst
<1>20. ASSUME NEW a \in Actor, RemoveEntry(a) PROVE Filled'
  BY <1>20 DEF RemoveEntry
<1>21. ASSUME NEW a \in Actor, DeleteBegin(a) PROVE Filled'
  <2>1. /\ pc[a] = "delete" /\ dels' = [dels EXCEPT ![obj[a]] = @ + 1]
        /\ \E q \in {"wild", "charts", "free"} : pc' = [pc EXCEPT ![a] = q]
        /\ UNCHANGED <<opened, kind, cpu, acct, obj, todo, row, fresh>>
    BY <1>21 DEF DeleteBegin
  <2>2. obj[a] \in 1..opened /\ opened \in Page
    BY <2>1
  <2>3. dels'[opened] = 0 => dels[opened] = 0
    BY <2>1, <2>2
  <2>4. pc'["gui"] = "refresh" => a = "key" /\ pc["gui"] = "refresh"
    BY <2>1
  <2>5. pc'["gui"] = "refresh" => cut'
    BY <1>21, <2>4, Zenon DEF DeleteBegin
  <2>6. pc["gui"] \in {"fill", "row"} => a = "key" /\ pc'["gui"] = pc["gui"]
    BY <2>1
  <2>7. QED
    BY <2>1, <2>2, <2>3, <2>4, <2>5, <2>6
<1>22. ASSUME NEW a \in Actor, DeleteChart(a) PROVE Filled'
  BY <1>22 DEF DeleteChart
<1>23. ASSUME NEW a \in Actor, DeleteRow(a) PROVE Filled'
  BY <1>23 DEF DeleteRow
<1>24. ASSUME NEW a \in Actor, DeleteClose(a) PROVE Filled'
  BY <1>24 DEF DeleteClose
<1>25. ASSUME NEW a \in Actor, DeletePage(a) PROVE Filled'
  BY <1>25 DEF DeletePage
<1>26. CASE UNCHANGED vars
  BY <1>26 DEF vars
<1>27. QED
  BY <1>1, <1>2, <1>3, <1>4, <1>5, <1>6, <1>7, <1>8, <1>9, <1>10, <1>11, <1>12, <1>13,
     <1>14, <1>15, <1>16, <1>17, <1>18, <1>19, <1>20, <1>21, <1>22, <1>23, <1>24,
     <1>25, <1>26 DEF Next

-----------------------------------------------------------------------------
(* The inductive invariant holds in every reachable state. *)
THEOREM GuiPagesInv == Spec => []Inv
<1>1. Init => Inv
  <2> SUFFICES ASSUME Init PROVE Inv
    OBVIOUS
  <2> USE GuiPagesAssumption DEF Init, Page, Null, Actor, Kind, At, Closing, Empty
  <2>1. PagesOK /\ CpuOK
    <3>1. half \in BOOLEAN /\ same \in BOOLEAN /\ cut \in BOOLEAN /\ failed \in BOOLEAN
      OBVIOUS
    <3>2. PagesOK
      BY <3>1 DEF PagesOK
    <3>3. CpuOK
      BY DEF CpuOK, Wild
    <3>4. QED
      BY <3>2, <3>3
  <2>2. list \in Seq(Page)
    OBVIOUS
  <2>3. Stack /\ Once /\ Owned /\ Held /\ Rows /\ Filled
    BY OneEntry DEF Stack, Once, Owned, Held, Rows, Filled, Deleting, Building
  <2>4. QED
    BY <2>1, <2>2, <2>3 DEF Inv, TypeOK
<1>2. Inv /\ [Next]_vars => Inv'
  <2> SUFFICES ASSUME Inv, [Next]_vars PROVE Inv'
    OBVIOUS
  <2>1. /\ PagesOK /\ CpuOK
        /\ Stack /\ Once /\ Owned /\ Held /\ Rows /\ Filled
    BY DEF Inv, TypeOK
  <2>2. PagesOK' /\ CpuOK'
    BY <2>1, PagesStep, CpuStep
  <2>3. Stack' /\ Once' /\ Owned' /\ Held' /\ Rows' /\ Filled'
    BY <2>1, StackStep, OnceStep, OwnedStep, HeldStep, RowsStep, FilledStep
  <2>4. (list \in Seq(Page))'
    <3>1. CASE list' = <<>>
      BY <3>1
    <3>2. CASE list' = <<opened'>> /\ opened' > 0
      <4>1. opened' \in Page'
        BY <2>2, <3>2, GuiPagesAssumption DEF PagesOK, Page
      <4>2. QED
        BY <3>2, <4>1
    <3>3. QED
      BY <2>3, <3>1, <3>2 DEF Stack, Empty, Only
  <2>5. QED
    BY <2>2, <2>3, <2>4 DEF Inv, TypeOK
<1>3. QED
  BY <1>1, <1>2, PTL DEF Spec

(* A page is deleted once, whatever the two threads do, unless both have     *)
(* read its entry before either took it off (lv_remove_activity_obj).        *)
THEOREM GuiDeletedOnce == Spec => []DeletedOnce
<1>1. Inv => DeletedOnce
  BY DEF Inv, TypeOK, Once, DeletedOnce
<1>2. QED
  BY <1>1, GuiPagesInv, PTL

(* Whatever is shown can be closed, and the close button closes its own page *)
(* (lv_add_activity_obj, cancel_cb, close_press_cb).                         *)
THEOREM GuiClosable == Spec => []Closable
<1>1. ASSUME Inv PROVE ClosesOwn
  <2>1. pc["gui"] \in {"unlink", "delete", "charts", "rows"} =>
          kind[obj["gui"]] = "cpu" /\ obj["gui"] = opened
    BY <1>1 DEF Inv, Held
  <2>2. ASSUME At("gui", "null"), ~failed, NEW p \in shown PROVE ~At("key", "idle")
    <3>1. list = Empty /\ list # Only(p)
      BY <1>1, <2>2, OneEntry DEF Inv, Held
    <3>2. \E a \in Actor : At(a, "delete") \/ Deleting(a)
      BY <1>1, <2>2, <3>1 DEF Inv, Held, At
    <3>3. QED
      BY <2>2, <3>2 DEF At, Deleting, Actor
  <2>3. QED
    BY <2>1, <2>2 DEF ClosesOwn
<1>2. ASSUME NEW p, list = Only(p) PROVE Cardinality({i \in 1..Len(list) : list[i] = p}) = 1
  <2>1. {i \in 1..Len(list) : list[i] = p} = {1}
    BY <1>2 DEF Only
  <2>2. QED
    BY <2>1, FS_Singleton
<1>3. Inv => Closable
  BY <1>1, <1>2 DEF Inv, Held, Closable
<1>4. QED
  BY <1>3, GuiPagesInv, PTL

(* What refresh_cpu_task and camera_task use exists, unless the key thread   *)
(* deletes the page meanwhile.                                               *)
THEOREM GuiRefreshLive == Spec => []RefreshLive
<1>1. Inv => RefreshLive
  <2> SUFFICES ASSUME Inv, At("gui", "refresh"), ~cut
               PROVE  /\ obj["gui"] \in shown
                      /\ \A t \in todo :
                           \/ acct[t] # "live" \/ t \in fresh \/ udata[t] = Null
                           \/ /\ <<udata[t], t>> \in infos
                              /\ chart[t] # Null => <<t, chart[t]>> \in charts
    BY DEF RefreshLive
  <2>1. obj["gui"] = opened /\ opened \in 1..opened /\ dels[opened] = 0
    BY DEF Inv, TypeOK, PagesOK, Filled
  <2>2. QED
    <3>1. opened \in shown
      BY <2>1 DEF Inv, Stack
    <3>2. ASSUME NEW t \in todo, acct[t] = "live", t \notin fresh
          PROVE  /\ <<udata[t], t>> \in infos
                 /\ chart[t] # Null => <<t, chart[t]>> \in charts
      <4>1. t \in Thread /\ kind[opened] = "cpu"
        BY <2>1 DEF Inv, TypeOK, CpuOK, Filled
      <4>2. udata[t] = opened /\ <<opened, t>> \in infos
        BY <2>1, <3>2, <4>1 DEF Inv, Filled, At
      <4>3. QED
        BY <2>1, <4>1, <4>2 DEF Inv, Filled
    <3>3. QED
      BY <2>1, <3>1, <3>2
<1>2. QED
  BY <1>1, GuiPagesInv, PTL

(* The handlers of LV_EVENT_DELETE leave no task, btn_info or chart of a     *)
(* page behind, and the variables keep their types.                          *)
THEOREM GuiNothingLeft == Spec => []NothingLeft
<1>1. ASSUME Inv, NEW p \in 1..opened, Alive(p, {"charts", "rows"}) \/ Alive(p, {"charts"})
      PROVE  p \in shown
  BY <1>1 DEF Inv, Stack, Alive, Deleting
<1>2. Inv => NothingLeft
  BY <1>1 DEF Inv, TypeOK, PagesOK, Owned, NothingLeft
<1>3. QED
  BY <1>2, GuiPagesInv, PTL
=============================================================================
