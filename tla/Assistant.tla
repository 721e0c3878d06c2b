------------------------------ MODULE Assistant ------------------------------
(***************************************************************************)
(* The assistant: a chat that streams its answer, searches for dishes and  *)
(* restaurants, a dish by id, and the favourites of a customer, which show *)
(* dishes the same way.                                                    *)
(*                                                                         *)
(* A call reads the taste profile, the restaurants, and two parts of one   *)
(* menu after the other, while staff close restaurants and change menus;   *)
(* each read may fail and the call goes on with what it has.  The model    *)
(* that writes the texts may be missing, fail or answer nothing.  The      *)
(* handler of a stream runs after the handler of its request has returned, *)
(* and it starts a goroutine that records the craving.                     *)
(*                                                                         *)
(* A message is a sequence of words.  Text search (MongoDB's) may find any *)
(* restaurants; the order of discovery is that of module Reputation, here  *)
(* any.  A menu is that of module Ordering, with fixed dishes.  Answered   *)
(* (5 in the code), Few (12) and Many (25) are the numbers of dishes shown,*)
(* MaxRestaurants (15) that of the restaurants whose menus are read, and   *)
(* MaxFound (25) that of the restaurants a search finds.  Dietary tags,    *)
(* "near me", distances, names and emoji change no answer here.            *)
(***************************************************************************)
EXTENDS Integers, Sequences, SequencesExt, FiniteSetsExt, Calls

CONSTANTS
    Restaurant, Facts,  \* Facts: cuisines, minutes to prepare and to deliver, tenths of stars
    CategoriesOf, ItemsOf,  \* the menu of a restaurant in its order, by category
    Dish,               \* [Item -> words, tags, cents]
    Spices,             \* spice levels of taste profiles, in 0..10
    Savable,            \* dishes that users save
    Requests,
    Cuisines,           \* knownCuisines, in the order of the code
    Synonyms,           \* the cuisine that a word like "barbecue" is turned to
    MinutesOf,          \* "under 30 minutes": the minutes a word stands for
    TasteSignals, FoodWords,
    Refinements,        \* what the language model may make of a message
    Answered, Few, Many, MaxRestaurants, MaxFound,
    MaxChanges          \* bound on what staff and users change

Item == DOMAIN Dish
Category == DOMAIN ItemsOf
CategoryOf(i) == CHOOSE c \in Category : i \in ToSet(ItemsOf[c])
RestaurantOf(i) == CHOOSE r \in Restaurant : CategoryOf(i) \in ToSet(CategoriesOf[r])

\* What of s is in keep, in the order of s.
Kept(s, keep) ==
    LET kept[n \in 0..Len(s)] ==
          IF n = 0 THEN <<>> ELSE IF s[n] \in keep THEN Append(kept[n - 1], s[n]) ELSE kept[n - 1]
    IN kept[Len(s)]

Kinds == {"stream", "dishes", "recommend", "search", "chat", "dish", "favorites"}
Filters == {"spicy", "citrus", "under15", "under30", "rating45"}

\* Dishes, categories and restaurants are different things; a dish has one category,
\* a category one restaurant.
ASSUME AssistantAssumption ==
    /\ IsFiniteSet(Restaurant) /\ DOMAIN Facts = Restaurant
    /\ \A r \in Restaurant : Facts[r].prep \in Int
    /\ CategoriesOf \in [Restaurant -> Seq(Category)] /\ ItemsOf \in [Category -> Seq(Item)]
    /\ Item \cap (Category \cup Restaurant) = {}
    /\ \A i \in Item : \E c \in Category : i \in ToSet(ItemsOf[c])
    /\ \A i \in Item : \E r \in Restaurant : CategoryOf(i) \in ToSet(CategoriesOf[r])
    /\ \A c, d \in Category : ToSet(ItemsOf[c]) \cap ToSet(ItemsOf[d]) # {} => c = d
    /\ \A r, q \in Restaurant : ToSet(CategoriesOf[r]) \cap ToSet(CategoriesOf[q]) # {} => r = q
    /\ Spices \subseteq 0..10 /\ Savable \subseteq Item
    /\ DOMAIN MinutesOf \cap ToSet(Cuisines) = {}
    /\ \A w \in DOMAIN MinutesOf : MinutesOf[w] \in Int
    /\ \A x \in Refinements : DOMAIN x = {"cuisine", "minutes"} /\ x.minutes \in Int \cup {None}
    /\ \A q \in Requests :
         /\ q.kind \in Kinds /\ q.user \in User \cup {None} /\ q.filter \subseteq Filters
         /\ q.kind \in {"stream", "favorites"} => q.user # None
         /\ IsFiniteSet(DOMAIN q.words)
         /\ q.taste = None \/ {q.taste.spice, q.taste.richness, q.taste.acidity} \subseteq Int
    /\ {Answered, Few, Many, MaxRestaurants, MaxFound} \subseteq Nat \ {0} /\ MaxChanges \in Nat
    /\ None # "favorites"

VARIABLES
    worlds,     \* the restaurants, menus and dishes as they have been; the last one is now
    tastes,     \* collection taste_profiles: the spice level of a user, or None
    saved,      \* collection favorites: dishes by user
    cravings,   \* collection cravings, by the call that a row is from
    llm,        \* LLM_API_KEY is set
    changes

env == <<worlds, tastes, saved, changes>>
vars == <<env, cravings, llm, calls>>

\* What is up: open restaurants, active categories, available dishes.
Now == worlds[Len(worlds)]

Underway(k) == calls[k].stage \notin {"idle", "ended", "died"}

-----------------------------------------------------------------------------
(* What a message and a dish say                                            *)

Has(words, w) == w \in ToSet(words)

\* The first cuisine of the list, not of the message, by its usual name.
Parse(words) ==
    LET named == {n \in DOMAIN Cuisines : Has(words, Cuisines[n])}
        timed == {w \in DOMAIN MinutesOf : Has(words, w) /\ MinutesOf[w] > 0}
        first == Cuisines[Min(named)]
    IN [cuisine |-> IF named = {} THEN None
                    ELSE IF first \in DOMAIN Synonyms THEN Synonyms[first] ELSE first,
        minutes |-> IF timed = {} THEN None ELSE MinutesOf[CHOOSE w \in timed : TRUE]]

HasTasteSignal(words) == ToSet(words) \cap TasteSignals # {}

LooksLikeRestaurantQuery(words) ==
    \/ ToSet(words) \cap FoodWords # {}
    \/ Parse(words).cuisine # None \/ Parse(words).minutes # None

Flavor(i) ==
    LET tagged(tags) == Dish[i].tags \cap tags # {}
    IN [spicy |-> IF tagged({"mild"}) THEN 2 ELSE IF tagged({"spicy"}) THEN 8 ELSE 3,
        sour  |-> IF tagged({"citrus", "sour"}) THEN 7 ELSE 3,
        rich  |-> IF tagged({"rich", "creamy"}) THEN 7 ELSE 4]

Abs(n) == IF n < 0 THEN -n ELSE n

Hits(i, words) == Cardinality({n \in DOMAIN words : words[n] \in Dish[i].words \cup Dish[i].tags})

\* A word counts each time the message has it.
Score(i, words, taste) ==
    LET fit == IF taste = None THEN 0
               ELSE 24 - Abs(taste.spice - Flavor(i).spicy) - Abs(taste.richness - Flavor(i).rich)
                       - Abs(taste.acidity - Flavor(i).sour)
    IN Max({50, Min({99, 60 + 6 * Hits(i, words) + fit})})

KeepsRestaurant(filter, r) ==
    /\ "rating45" \in filter => Facts[r].stars >= 45
    /\ "under30" \in filter => Facts[r].delivery \in 1..30

KeepsDish(filter, i) ==
    /\ "under15" \in filter => Dish[i].cents <= 1500
    /\ "spicy" \in filter => Flavor(i).spicy >= 6
    /\ "citrus" \in filter => Flavor(i).sour >= 6

\* sortDishesByMatchDesc leaves dishes with the same match in menu order.
Ranked(dishes) ==
    LET before(m, n) == \/ dishes[m].match > dishes[n].match
                        \/ dishes[m].match = dishes[n].match /\ m < n
        order == CHOOSE p \in SetToSeqs(DOMAIN dishes) :
                   \A m, n \in DOMAIN dishes : m < n => before(p[m], p[n])
    IN [n \in DOMAIN dishes |-> dishes[order[n]]]

Cut(s, n) == SubSeq(s, 1, Min({n, Len(s)}))

\* Mutant: the list is cut as the menus had it.
CutFirst(dishes, n) == Ranked(Cut(dishes, n))

TopDishes(dishes, n) == Cut(Ranked(dishes), n)

-----------------------------------------------------------------------------

Init ==
    /\ worlds = <<[up |-> Restaurant \cup Category \cup Item, items |-> Item]>>
    /\ tastes = [u \in User |-> None] /\ saved = [u \in User |-> {}]
    /\ cravings = [k \in Call |-> None] /\ llm \in BOOLEAN
    /\ calls = [k \in Call |-> [stage |-> "idle"]]
    /\ changes = 0

-----------------------------------------------------------------------------
(* Staff and users                                                          *)

Change == changes < MaxChanges /\ changes' = changes + 1 /\ UNCHANGED <<llm, calls>>
Becomes(world) == worlds' = Append(worlds, world) /\ UNCHANGED <<tastes, saved, cravings>>

Flip(x) == [Now EXCEPT !.up = SymDiff(@, {x})]

ToggleManualClosed(r) == Change /\ Becomes(Flip(r))
UpdateCategory(c) == Change /\ Becomes(Flip(c))
UpdateItem(i) == i \in Now.items /\ Change /\ Becomes(Flip(i))
DeleteItem(i) ==
    i \in Now.items /\ Change /\ Becomes([up |-> Now.up \ {i}, items |-> Now.items \ {i}])

\* PUT taste-profile writes the user's row or makes it.
UpdateTaste(u, spice) ==
    Change /\ tastes' = [tastes EXCEPT ![u] = spice] /\ UNCHANGED <<worlds, saved, cravings>>

\* Whether the dish exists is not asked.
AddDish(u, i) ==
    Change /\ saved' = [saved EXCEPT ![u] = @ \cup {i}] /\ UNCHANGED <<worlds, tastes, cravings>>
RemoveDish(u, i) ==
    Change /\ saved' = [saved EXCEPT ![u] = @ \ {i}] /\ UNCHANGED <<worlds, tastes, cravings>>

\* A row is changed by its user only; without one nothing happens.
CravingOf(u, k) == cravings[k] # None /\ cravings[k].user = u

PinCraving(u, k, pinned) ==
    /\ CravingOf(u, k) /\ Change
    /\ cravings' = [cravings EXCEPT ![k].pinned = pinned] /\ UNCHANGED <<worlds, tastes, saved>>
DeleteCraving(u, k) ==
    /\ CravingOf(u, k) /\ Change
    /\ cravings' = [cravings EXCEPT ![k] = None] /\ UNCHANGED <<worlds, tastes, saved>>

-----------------------------------------------------------------------------
(* A call                                                                   *)

Step(k, row) == calls' = [calls EXCEPT ![k] = row] /\ UNCHANGED <<env, llm, cravings>>
Reply(k, reply) == Step(k, [calls[k] EXCEPT !.stage = "ended", !.reply = reply])

\* words and taste are what dishes are scored by, intent what restaurants are
\* searched by; "whole" is lost with a read that failed.
Fresh(q, stage) ==
    [stage |-> stage, req |-> q, since |-> Len(worlds), words |-> q.words, taste |-> None,
     intent |-> Parse(q.words), found |-> <<>>, left |-> <<>>, opened |-> <<>>, dishes |-> <<>>,
     sent |-> <<>>, answer |-> None, reply |-> None, whole |-> TRUE]
Refused(q, reply) == [Fresh(q, "ended") EXCEPT !.reply = reply]

Begin(k, row) == At(k, "idle") /\ Step(k, row)

\* A blank message is answered at once.
StreamChat(k, q) ==
    /\ q.kind = "stream"
    /\ Begin(k, IF q.words = <<>> THEN [Fresh(q, "ended") EXCEPT !.sent = <<"answer", "followups">>]
                ELSE Fresh(q, "taste"))

SearchDishes(k, q) == q.kind = "dishes" /\ Begin(k, Fresh(q, "search"))

\* The taste of the request stands for its words; it is not checked.
TasteWords(taste) ==
    IF taste = None THEN <<>>
    ELSE (IF taste.spice >= 7 THEN <<"spicy">> ELSE <<>>)
         \o (IF taste.citrus >= 6 THEN <<"citrus">> ELSE <<>>)
         \o (IF taste.richness >= 7 THEN <<"rich">> ELSE <<>>)

Recommend(k, q) ==
    /\ q.kind = "recommend"
    /\ Begin(k, [Fresh(q, "search") EXCEPT !.words = TasteWords(q.taste), !.taste = q.taste])

Search(k, q) ==
    /\ q.kind = "search"
    /\ Begin(k, IF q.words = <<>> THEN Refused(q, "query is required")
                ELSE Fresh(q, IF llm THEN "refine" ELSE "find"))

\* The chat without a stream, which the service has but no route leads to.
Chat(k, q) ==
    /\ q.kind = "chat"
    /\ Begin(k, IF ~llm THEN Refused(q, "unavailable")
                ELSE IF q.words = <<>> THEN Refused(q, "message is required") ELSE Fresh(q, "chat"))

DishByID(k, q) == q.kind = "dish" /\ Begin(k, Fresh(q, "dish"))
ListFavorites(k, q) == q.kind = "favorites" /\ Begin(k, Fresh(q, "saved"))

-----------------------------------------------------------------------------
(* The stream, and the lists of dishes                                      *)

\* Without a row the service answers Default(): nil only comes with an error.
\* Only the spice level is the user's.
ReadTaste(k) ==
    /\ At(k, "taste")
    /\ LET row == tastes[calls[k].req.user]
           fingerprint == [spice |-> IF row = None THEN 5 ELSE row, richness |-> 5, acidity |-> 3]
           parse == <<"parse">>
       IN \/ Step(k, [calls[k] EXCEPT !.stage = "search", !.taste = fingerprint, !.sent = parse])
          \/ LET clarify == IF HasTasteSignal(calls[k].words) THEN <<>> ELSE <<"clarify">>
             IN Step(k, [calls[k] EXCEPT !.stage = "search", !.taste = None,
                                         !.sent = clarify \o parse])

Open == {r \in Restaurant : r \in Now.up}
Listing == {Cut(s, MaxRestaurants) : s \in SetToSeqs(Open)}
Matching(cuisine, most) ==
    {Cut(s, most) : s \in UNION {SetToSeqs(some) : some \in
        SUBSET {r \in Open : cuisine = None \/ cuisine \in Facts[r].cuisines}}}

ToMenus(k, s, whole) ==
    LET kept == Kept(s, {r \in Restaurant : KeepsRestaurant(calls[k].req.filter, r)})
    IN Step(k, [calls[k] EXCEPT !.stage = "categories", !.found = kept, !.left = kept,
                                !.whole = whole])

\* Nothing found, or an error: the restaurants without the words.  Blank words
\* find what the list has.
DiscoverySearch(k) ==
    /\ At(k, "search")
    /\ \/ Step(k, [calls[k] EXCEPT !.stage = "list"])
       \/ LET found == IF calls[k].words = <<>> THEN Listing ELSE Matching(None, MaxRestaurants)
          IN \E s \in found \ {<<>>} : ToMenus(k, s, TRUE)

DiscoveryList(k) ==
    /\ At(k, "list")
    /\ (\E s \in Listing : ToMenus(k, s, TRUE)) \/ ToMenus(k, <<>>, FALSE)

\* A menu that cannot be read is left out.
SkipMenu(k) ==
    /\ At(k, "items") \/ (At(k, "categories") /\ calls[k].left # <<>>)
    /\ Step(k, [calls[k] EXCEPT !.stage = "categories", !.left = Tail(@), !.whole = FALSE])

ReadCategories(k) ==
    /\ At(k, "categories") /\ calls[k].left # <<>>
    /\ Step(k, [calls[k] EXCEPT !.stage = "items",
                                !.opened = Kept(CategoriesOf[Head(calls[k].left)], Now.up)])

\* Mutant: dishes that are not available are listed.
AllOf(filter, c) == Kept(ItemsOf[c], {i \in Now.items : KeepsDish(filter, i)})

Offered(filter, c) == Kept(ItemsOf[c], {i \in Now.items \cap Now.up : KeepsDish(filter, i)})

Scored(k, items) ==
    [n \in DOMAIN items |->
        [item |-> items[n], match |-> Score(items[n], calls[k].words, calls[k].taste)]]

ReadItems(k) ==
    /\ At(k, "items")
    /\ LET opened == calls[k].opened
           items == FlattenSeq([n \in DOMAIN opened |-> Offered(calls[k].req.filter, opened[n])])
       IN Step(k, [calls[k] EXCEPT !.stage = "categories", !.left = Tail(@),
                                   !.dishes = @ \o Scored(k, items)])

Shown(k) == IF calls[k].req.kind = "dishes" THEN Many ELSE Few

\* A stream tells of each phase once they are over.
RankDishes(k) ==
    /\ At(k, "categories") /\ calls[k].left = <<>>
    /\ LET dishes == TopDishes(calls[k].dishes, Shown(k))
       IN IF calls[k].req.kind = "stream"
          THEN Step(k, [calls[k] EXCEPT !.stage = "compose", !.dishes = dishes,
                                        !.sent = @ \o <<"filter", "search", "rerank", "done">>])
          ELSE Step(k, [calls[k] EXCEPT !.stage = "ended", !.dishes = dishes, !.reply = "dishes"])

\* An error or a blank text gives way to the fixed one.
AnswerTexts(top) ==
    IF top = <<>> THEN {"none found"} ELSE IF llm THEN {"found", "explained"} ELSE {"found"}

\* buildSources: the restaurants of the dishes, two at most, then the taste.
Sources(top) ==
    LET places == [n \in DOMAIN top |-> RestaurantOf(top[n].item)]
        first == Kept([n \in DOMAIN top |-> n],
                      {n \in DOMAIN top : \A m \in 1..(n - 1) : places[m] # places[n]})
    IN Cut([n \in DOMAIN first |-> places[first[n]]], 2)

\* Mutant: a language model that fails ends the stream.
FailsWithModel(k) ==
    /\ At(k, "compose")
    /\ \E text \in AnswerTexts(Cut(calls[k].dishes, Answered)) :
         IF llm /\ text = "found" THEN Step(k, [calls[k] EXCEPT !.stage = "ended"])
         ELSE Step(k, [calls[k] EXCEPT
                         !.stage = "ended", !.sent = @ \o <<"answer", "followups">>,
                         !.answer = [text |-> text, dishes |-> Cut(calls[k].dishes, Answered),
                                     sources |-> Sources(Cut(calls[k].dishes, Answered))]])

ComposeAnswer(k) ==
    /\ At(k, "compose")
    /\ LET top == Cut(calls[k].dishes, Answered)
       IN \E text \in AnswerTexts(top) :
            Step(k, [calls[k] EXCEPT !.stage = "record", !.sent = @ \o <<"answer", "followups">>,
                                     !.answer = [text |-> text, dishes |-> top,
                                                 sources |-> Sources(top)]])

\* The goroutine; its error is logged.
RecordCraving(k) ==
    /\ At(k, "record")
    /\ LET top == calls[k].answer.dishes
           row == [user |-> calls[k].req.user, pinned |-> FALSE,
                   dish |-> IF top = <<>> THEN None ELSE top[1].item,
                   match |-> IF top = <<>> THEN 0 ELSE top[1].match]
       IN cravings' \in {cravings, [cravings EXCEPT ![k] = row]}
    /\ calls' = [calls EXCEPT ![k].stage = "ended"]
    /\ UNCHANGED <<env, llm>>

-----------------------------------------------------------------------------
(* Restaurants, and single dishes                                           *)

\* What the model leaves out keeps the parsed value; what is no JSON, all of it.
Merged(intent, refined) ==
    [part \in DOMAIN intent |-> IF refined[part] = None THEN intent[part] ELSE refined[part]]

RefineIntent(k) ==
    /\ At(k, "refine")
    /\ \/ Step(k, [calls[k] EXCEPT !.stage = "find"])
       \/ \E refined \in Refinements :
            Step(k, [calls[k] EXCEPT !.stage = "find", !.intent = Merged(@, refined)])

\* A restaurant without a preparation time (0) is never too slow.  A model's limit
\* may be any number.
TooSlow(k, r) ==
    LET limit == calls[k].intent.minutes
    IN limit # None /\ Facts[r].prep # 0 /\ Facts[r].prep > limit

\* An error is an empty result.  In a chat an empty result is no action.
FindRestaurants(k) ==
    /\ At(k, "find")
    /\ \E s \in Matching(calls[k].intent.cuisine, MaxFound) :
         Step(k, [calls[k] EXCEPT !.stage = "ended", !.reply = "restaurants",
                                  !.found = Kept(s, {r \in Restaurant : ~TooSlow(k, r)})])

CompleteChat(k) ==
    /\ At(k, "chat")
    /\ \/ Reply(k, "unavailable")
       \/ IF LooksLikeRestaurantQuery(calls[k].words)
          THEN Step(k, [calls[k] EXCEPT !.stage = "refine"])
          ELSE Reply(k, "text")

\* A dish is shown whether it is offered or not.
ReadDish(k) ==
    /\ At(k, "dish")
    /\ LET i == calls[k].req.dish
       IN \/ Reply(k, "error")
          \/ IF i \notin Now.items THEN Reply(k, "dish not found")
             ELSE Step(k, [calls[k] EXCEPT !.stage = "ended", !.reply = "dish",
                                           !.dishes = Scored(k, <<i>>)])

\* Saved ids that cannot be read are none.
ReadSaved(k) ==
    /\ At(k, "saved")
    /\ \/ LET ids == SetToSeq(saved[calls[k].req.user])
          IN Step(k, [calls[k] EXCEPT !.stage = "hydrate", !.found = ids, !.left = ids])
       \/ Step(k, [calls[k] EXCEPT !.stage = "hydrate", !.whole = FALSE])
       \/ Reply(k, "error")

\* One by one; a dish that is gone or cannot be read is left out.  No match.
HydrateDish(k) ==
    /\ At(k, "hydrate") /\ calls[k].left # <<>>
    /\ LET i == Head(calls[k].left)
           row == IF i \in Now.items THEN <<[item |-> i, match |-> 0]>> ELSE <<>>
       IN \/ Step(k, [calls[k] EXCEPT !.left = Tail(@), !.dishes = @ \o row])
          \/ Step(k, [calls[k] EXCEPT !.left = Tail(@), !.whole = FALSE])

SendFavorites(k) == At(k, "hydrate") /\ calls[k].left = <<>> /\ Reply(k, "favorites")

-----------------------------------------------------------------------------

\* A process that dies takes the calls and goroutines it runs along.
Crash ==
    /\ \E k \in Call : Underway(k)
    /\ calls' = [k \in Call |->
                   IF Underway(k) THEN [calls[k] EXCEPT !.stage = "died"] ELSE calls[k]]
    /\ UNCHANGED <<env, llm, cravings>>

CallStep(k) ==
    \/ ReadTaste(k) \/ DiscoverySearch(k) \/ DiscoveryList(k)
    \/ SkipMenu(k) \/ ReadCategories(k) \/ ReadItems(k)
    \/ RankDishes(k) \/ ComposeAnswer(k) \/ RecordCraving(k)
    \/ RefineIntent(k) \/ FindRestaurants(k)
    \/ CompleteChat(k) \/ ReadDish(k) \/ ReadSaved(k) \/ HydrateDish(k) \/ SendFavorites(k)

StartCall(k) ==
    \E q \in Requests : \/ StreamChat(k, q) \/ SearchDishes(k, q) \/ Recommend(k, q) \/ Search(k, q)
                        \/ Chat(k, q) \/ DishByID(k, q) \/ ListFavorites(k, q)

Next ==
    \/ \E r \in Restaurant : ToggleManualClosed(r)
    \/ \E c \in Category : UpdateCategory(c)
    \/ \E i \in Item : UpdateItem(i) \/ DeleteItem(i)
    \/ \E u \in User :
         \/ \E spice \in Spices : UpdateTaste(u, spice)
         \/ \E i \in Savable : AddDish(u, i) \/ RemoveDish(u, i)
         \/ \E k \in Call : DeleteCraving(u, k) \/ \E pinned \in BOOLEAN : PinCraving(u, k, pinned)
    \/ \E k \in Call : StartCall(k) \/ CallStep(k)
    \/ Crash

Spec == Init /\ [][Next]_vars

\* A handler that runs goes on: every wait has an end, and nothing is retried.
FairSpec == Spec /\ \A k \in Call : WF_vars(CallStep(k))

-----------------------------------------------------------------------------
(* Properties                                                               *)

\* What has been up, or there, at some time since a call began, or all the time.
Since(k) == {worlds[n] : n \in calls[k].since..Len(worlds)}
SeenUp(k, things) == \A x \in things : \E world \in Since(k) : x \in world.up
AlwaysUp(k, things) == \A world \in Since(k) : things \subseteq world.up

Begun == {k \in Call : ~At(k, "idle")}
OfKind(kinds) == {k \in Begun : calls[k].req.kind \in kinds}
Listings == {"stream", "dishes", "recommend"}
ItemsShown(k) == {calls[k].dishes[n].item : n \in DOMAIN calls[k].dishes}

\* Whatever changes between the reads of a call: a listed dish was available, its
\* category active and its restaurant open while the call ran, and it passes the
\* filters; a dish shown by its id was there; and the restaurants of a search fit
\* the intent that is returned with them, also when a model refined it: they have
\* its cuisine and are within its minutes, or have no preparation time yet.
AnswerHonest ==
    /\ \A k \in OfKind(Listings) : \A i \in ItemsShown(k) :
         /\ SeenUp(k, {i, CategoryOf(i), RestaurantOf(i)})
         /\ KeepsDish(calls[k].req.filter, i)
         /\ KeepsRestaurant(calls[k].req.filter, RestaurantOf(i))
    /\ \A k \in OfKind({"dish", "favorites"}) : \A i \in ItemsShown(k) :
         \E world \in Since(k) : i \in world.items
    /\ \A k \in OfKind({"search", "chat"}) : \A r \in ToSet(calls[k].found) :
         /\ SeenUp(k, {r})
         /\ calls[k].intent.cuisine \in Facts[r].cuisines \cup {None}
         /\ calls[k].intent.minutes # None =>
              Facts[r].prep = 0 \/ Facts[r].prep <= calls[k].intent.minutes

\* When no read failed, no dish of the restaurants found is kept back that was
\* offered all the time and passes the filters, except for dishes that match at
\* least as well; and no favourite that was there all the time is missing.
BestShown ==
    /\ \A k \in OfKind(Listings) :
         calls[k].whole /\ calls[k].stage \in {"compose", "record", "ended"} =>
           \A i \in Item \ ItemsShown(k) :
             \/ RestaurantOf(i) \notin ToSet(calls[k].found)
             \/ ~AlwaysUp(k, {i, CategoryOf(i), RestaurantOf(i)})
             \/ ~KeepsDish(calls[k].req.filter, i)
             \/ /\ Len(calls[k].dishes) = Shown(k)
                /\ \A n \in 1..Shown(k) :
                     calls[k].dishes[n].match >= Score(i, calls[k].words, calls[k].taste)
    /\ \A k \in OfKind({"favorites"}) :
         calls[k].whole /\ calls[k].reply = "favorites" =>
           \A i \in ToSet(calls[k].found) \ ItemsShown(k) :
             \E world \in Since(k) : i \notin world.items

\* Every stream ends with one answer and then the follow-ups, whatever fails and
\* whether there is a language model ("the spec demands every event regardless",
\* sse.go), unless the process dies.
StreamsEnd ==
    \A k \in Call :
        At(k, "taste") ~> \/ At(k, "died")
                          \/ /\ At(k, "ended")
                             /\ Kept(calls[k].sent, {"done", "answer", "followups"})
                                  = <<"done", "answer", "followups">>
=============================================================================
