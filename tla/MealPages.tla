------------------------------ MODULE MealPages ------------------------------
(***************************************************************************)
(* The meals page and the home page's meal card: which posts are today's,  *)
(* which are history, and what the page says about the query behind them.  *)
(* A day is a number; a year has YearDays of them and a month MonthDays.   *)
(***************************************************************************)
EXTENDS CampusQuery, SequencesExt

CONSTANTS MealSnapshots, \* what the server may answer for the campus
          MonthPosts,    \* what it may answer for a month
          YearDays, MonthDays,
          MaxDay

VARIABLES day, connected, meals, reload, todays, history
mealVars == <<day, connected, meals, reload, todays, history>>

----------------------------------------------------------------------------
(* Posts: an id, a period of the day, a date in the title (year optional), *)
(* a day of publication, a number of pictures and whether there is text.   *)

MealOrder(m) == CASE m.period = "breakfast" -> 0 [] m.period = "lunch" -> 1
                  [] m.period = "dinner" -> 2 [] OTHER -> 3

\* A title without a year means the date nearest to the publication.
MealServiceDate(m, reference) ==
    LET anchor == IF m.published = None THEN reference ELSE m.published
        year == anchor \div YearDays
        years == IF m.year = None THEN <<year, year - 1, year + 1>> ELSE <<m.year>>
        Distance(d) == IF d < anchor THEN anchor - d ELSE d - anchor
        dates == [i \in DOMAIN years |-> years[i] * YearDays + m.titled]
        Nearer(selected, d) == IF Distance(d) < Distance(selected) THEN d ELSE selected
    IN  IF m.titled # None THEN FoldLeft(Nearer, dates[1], dates) ELSE m.published

\* The first of the posts with the same id.
UniqueMeals(posts) ==
    LET First(i) == \A j \in 1..i - 1 : posts[j].id # posts[i].id
        indices == SelectSeq([i \in DOMAIN posts |-> i], First)
    IN  [k \in DOMAIN indices |-> posts[indices[k]]]

InOrder(posts) ==
    LET Of(n) == SelectSeq(posts, LAMBDA m : MealOrder(m) = n)
    IN  Of(0) \o Of(1) \o Of(2) \o Of(3)

SelectTodayMeals(snapshot, today) ==
    InOrder(SelectSeq(UniqueMeals(snapshot.daily \o snapshot.recent),
                      LAMBDA m : MealServiceDate(m, today) = today))

FirstOf(posts, period) ==
    LET of == SelectSeq(posts, LAMBDA m : m.period = period)
    IN  IF of = <<>> THEN None ELSE of[1].id

TodayMealSlots(posts) == [period \in {"lunch", "dinner"} |-> FirstOf(posts, period)]

\* The home page looks at the first four posts of the day and shows nothing
\* when neither meal is among them.
HomeTodayMeals(snapshot, today) ==
    LET posts == SelectTodayMeals(snapshot, today)
    IN  SubSeq(posts, 1, IF Len(posts) < 4 THEN Len(posts) ELSE 4)
HomeTodayMealSlots(snapshot, today) ==
    LET slots == TodayMealSlots(HomeTodayMeals(snapshot, today))
    IN  IF slots["lunch"] = None /\ slots["dinner"] = None THEN None ELSE slots

MealsGroupedByDate(posts, reference) ==
    LET unique == UniqueMeals(posts)
        dates == {MealServiceDate(m, reference) : m \in ToSet(unique)} \ {None}
    IN  [d \in dates |-> InOrder(SelectSeq(unique, LAMBDA m : MealServiceDate(m, reference) = d))]

WeekKeyForDate(d) == d - (d % 7)
WeeklyMenuForDate(menus, d) ==
    IF \E w \in menus : w.week = WeekKeyForDate(d)
    THEN CHOOSE w \in menus : w.week = WeekKeyForDate(d) ELSE None
MonthOf(d) == d \div MonthDays

----------------------------------------------------------------------------
(* The cards.                                                              *)

MealPostCard(m) ==
    [pictures |-> IF m.pictures = 0 THEN "not posted" ELSE m.pictures,
     menu |-> IF m.text THEN "text" ELSE "not posted"]
MissingMealPostCard == [pictures |-> "waiting", menu |-> "not posted"]
TodayMealGrid(posts) ==
    [period \in {"lunch", "dinner"} |->
        IF FirstOf(posts, period) = None THEN MissingMealPostCard
        ELSE MealPostCard(CHOOSE m \in ToSet(posts) : m.id = FirstOf(posts, period))]
WeeklyMealMenu(menu) ==
    [pictures |-> menu.pictures,
     text |-> IF menu.text THEN "text" ELSE IF menu.pictures = 0 THEN "not posted" ELSE None]
HomeMealSlotsList(slots) ==
    [period \in {"lunch", "dinner"} |->
        IF slots[period] = None THEN "empty" ELSE "published"]
HomeMealsSummary ==
    LET slots == HomeTodayMealSlots(meals.data, day)
    IN  [failed |-> meals.error,
         slots |-> IF slots = None THEN None ELSE HomeMealSlotsList(slots)]

----------------------------------------------------------------------------
(* The page's state.                                                       *)

MealReason(offline, failed, stale) ==
    CASE offline -> "offline"
      [] ~offline /\ failed -> "fetch-failed"
      [] ~offline /\ ~failed /\ stale -> "stale-data"
      [] OTHER -> None

\* Data is stale on the day after it came.
MealsStale == IsStale(meals, day, 0)
CurrentWeekly == IF meals.data.weekly = None THEN None
                 ELSE IF meals.data.weekly.available THEN meals.data.weekly ELSE None

MealSections ==
    [todayEmpty |-> todays.posts = <<>>, weeklyEmpty |-> CurrentWeekly = None,
     historyEmpty |-> meals.data.daily = <<>> /\ meals.data.recent = <<>> /\ meals.data.menus = {}]

MealsBoundary == BoundaryKind(meals, connected)

MealsLoadState ==
    LET reason == MealReason(IsOffline(meals, connected),
                             meals.error \/ RefreshFailureIsCurrent(meals, reload), MealsStale)
        sectionsEmpty == \A part \in DOMAIN MealSections : MealSections[part]
        recovered == reason = None /\ Recovered(meals, reload, day, 0)
    IN  [kind |-> CASE reason = "offline" -> "offline"
                    [] reason \in {"fetch-failed", "stale-data"} -> "stale"
                    [] OTHER -> IF recovered THEN "recovered"
                                ELSE IF sectionsEmpty THEN "empty" ELSE "normal",
         reason |-> reason]

MealMessage(state) ==
    CASE state.kind = "offline" -> "last meals, offline"
      [] state.kind = "recovered" -> "recovered"
      [] state.kind = "stale" -> IF state.reason = "fetch-failed" THEN "last meals, failed"
                                 ELSE "last meals, delayed"
      [] OTHER -> None

MealsBanner ==
    LET state == MealsLoadState IN
    IF state.kind \in {"normal", "loading"} THEN None
    ELSE [type |-> state.kind, message |-> MealMessage(state),
          retry |-> RetryShown(state.kind = "stale",
                               meals.fetching \/ reload.status = "pending")]

WeeklySection ==
    IF CurrentWeekly # None THEN WeeklyMealMenu(CurrentWeekly)
    ELSE [empty |-> CASE MealsLoadState.kind = "offline" -> "offline"
                      [] MealsLoadState.kind = "stale" -> "not in the last meals"
                      [] OTHER -> "not yet"]

MealsPage ==
    [banner |-> MealsBanner, button |-> RefreshButton(reload, connected).enabled,
     today |-> TodayMealGrid(todays.posts), weekly |-> WeeklySection,
     history |-> ~MealSections.historyEmpty]

----------------------------------------------------------------------------
(* The history: a month of posts beside the snapshot's own.                *)

InitialHistory == meals.data.daily \o meals.data.recent
MonthAnswer == history.months[history.month]

\* Days with posts before today, as of the last change of the posts or the month.
HistoryDates ==
    LET grouped == MealsGroupedByDate(InitialHistory \o MonthAnswer.posts, history.at)
    IN  {d \in DOMAIN grouped : d < history.at}
InMonth(dates) == {d \in dates : MonthOf(d) = history.month}

\* The chosen day while the month has it, and the month's last otherwise.
ActiveHistoryDate ==
    LET grouped == MealsGroupedByDate(InitialHistory \o MonthAnswer.posts, history.at)
    IN  IF history.selected \in InMonth(DOMAIN grouped) THEN history.selected
        ELSE IF InMonth(HistoryDates) = {} THEN None ELSE Max(InMonth(HistoryDates))

HistoryCalendar ==
    [month |-> history.month, enabled |-> InMonth(HistoryDates), selected |-> ActiveHistoryDate]

MealHistoryMonth ==
    LET grouped == MealsGroupedByDate(InitialHistory \o MonthAnswer.posts, history.at)
        active == ActiveHistoryDate
    IN  [calendar |-> HistoryCalendar,
         posts |-> IF active = None THEN <<>> ELSE grouped[active],
         week |-> IF active = None THEN None ELSE WeeklyMenuForDate(meals.data.menus, active)]

HistoryShown == meals.data # None /\ ~MealSections.historyEmpty
HistoryReady == HistoryShown /\ MonthAnswer.state = "loaded"

\* The section opens on the month of the latest post of the snapshot.
OpeningMonth(snapshot, today) ==
    LET dates == DOMAIN MealsGroupedByDate(snapshot.daily \o snapshot.recent, today)
    IN  IF dates = {} THEN MonthOf(today) ELSE MonthOf(Max(dates))

----------------------------------------------------------------------------
Months == 0..MonthOf(MaxDay)
NotAsked == [state |-> "fetching", posts |-> <<>>]

MidnightPasses ==
    /\ day < MaxDay
    /\ day' = day + 1
    /\ UNCHANGED <<connected, meals, reload, todays, history>>

ConnectionChanges ==
    /\ connected' = ~connected
    /\ UNCHANGED <<day, meals, reload, todays, history>>

MealsRefetch ==
    /\ connected /\ ~meals.fetching
    /\ meals' = Fetching(meals)
    /\ UNCHANGED <<day, connected, reload, todays, history>>

MealsManualRefresh ==
    /\ RefreshButton(reload, connected).enabled
    /\ reload' = [status |-> "pending", submittedAt |-> day]
    /\ meals' = Fetching(meals)
    /\ UNCHANGED <<day, connected, todays, history>>

ReloadEnds(status) ==
    reload' = IF reload.status = "pending" THEN [reload EXCEPT !.status = status] ELSE reload

\* Today's posts are chosen when new data comes and kept until then.
MealsArrive ==
    /\ connected /\ meals.fetching
    /\ \E s \in MealSnapshots :
          /\ meals' = Settled(meals, s, day)
          /\ todays' = IF s = meals.data THEN todays
                       ELSE [posts |-> SelectTodayMeals(s, day), at |-> day]
          /\ history' = CASE meals.data = None ->
                               [history EXCEPT !.month = OpeningMonth(s, day), !.at = day]
                          [] s = meals.data -> history
                          [] OTHER -> [history EXCEPT !.at = day]
    /\ ReloadEnds("success")
    /\ UNCHANGED <<day, connected>>

MealsFail ==
    /\ meals.fetching
    /\ meals' = Failed(meals, day)
    /\ ReloadEnds("error")
    /\ UNCHANGED <<day, connected, todays, history>>

MonthArrives ==
    /\ HistoryShown /\ MonthAnswer.state = "fetching"
    /\ \/ \E posts \in MonthPosts :
             history' = [history EXCEPT !.at = day, !.months[history.month] =
                            [state |-> "loaded", posts |-> posts]]
       \/ history' = [history EXCEPT !.months[history.month].state = "failed"]
    /\ UNCHANGED <<day, connected, meals, reload, todays>>

RetryMonth ==
    /\ HistoryShown /\ MonthAnswer.state = "failed"
    /\ history' = [history EXCEPT !.months[history.month].state = "fetching"]
    /\ UNCHANGED <<day, connected, meals, reload, todays>>

ChangeMonth ==
    /\ HistoryReady
    /\ \E m \in Months \ {history.month} :
          history' = [history EXCEPT !.month = m, !.selected = None, !.at = day]
    /\ UNCHANGED <<day, connected, meals, reload, todays>>

SelectDay ==
    /\ HistoryReady
    /\ \E d \in HistoryCalendar.enabled : history' = [history EXCEPT !.selected = d]
    /\ UNCHANGED <<day, connected, meals, reload, todays>>

MealInit ==
    /\ day \in 0..MaxDay /\ connected \in BOOLEAN
    /\ meals = Fetching(NewQuery) /\ reload = NewRefresh
    /\ todays = [posts |-> <<>>, at |-> 0]
    /\ history = [month |-> 0, selected |-> None, at |-> 0, months |-> [m \in Months |-> NotAsked]]

MealNext ==
    \/ MidnightPasses \/ ConnectionChanges \/ MealsRefetch \/ MealsManualRefresh
    \/ MealsArrive \/ MealsFail \/ MonthArrives \/ RetryMonth \/ ChangeMonth \/ SelectDay

----------------------------------------------------------------------------
MealTypeOK ==
    /\ day \in 0..MaxDay /\ history.month \in Months
    /\ meals.data = None => MealsBoundary \in {"offline", "error", "loading"}
    /\ meals.data # None =>
          LET banner == MealsPage.banner
              slots == HomeMealsSummary.slots
          IN
          /\ banner # None => banner.type \in {"stale", "offline", "recovered", "empty"}
          /\ slots # None => "published" \in {slots[p] : p \in {"lunch", "dinner"}}

\* A day shown as history lies in the shown month, has posts, and was over
\* when they came, whatever was chosen, fetched or passed in between.
HistoryIsPast ==
    HistoryReady =>
        LET active == ActiveHistoryDate IN
        active # None => /\ active < day
                         /\ MonthOf(active) = history.month
                         /\ MealHistoryMonth.posts # <<>>

\* Home and the meals page name the same lunch and dinner, on the day the
\* page chose its posts and while the home page's limit of four is not met.
HomeAgreesWithPage ==
    (meals.data # None /\ todays.at = day /\ Len(todays.posts) <= 4) =>
        LET home == HomeTodayMealSlots(meals.data, day)
            page == TodayMealSlots(todays.posts)
        IN  IF home = None THEN page = [period \in {"lunch", "dinner"} |-> None] ELSE home = page
=============================================================================
