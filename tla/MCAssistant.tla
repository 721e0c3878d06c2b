---------------------------- MODULE MCAssistant ----------------------------
(* Two restaurants: one with a category of two dishes, and one with a dish. *)
EXTENDS Assistant, TLC
CONSTANTS east, west, soups, grill, tom, pho, ribs, ann

Places == (east :> [cuisines |-> {"thai"}, prep |-> 20, delivery |-> 25, stars |-> 48])
          @@ (west :> [cuisines |-> {"thai", "bbq"}, prep |-> 0, delivery |-> 0, stars |-> 41])
Menus == (east :> <<soups>>) @@ (west :> <<grill>>)
Courses == (soups :> <<pho, tom>>) @@ (grill :> <<ribs>>)
Dishes == (tom :> [words |-> {"thai", "soup"}, tags |-> {"spicy", "citrus"}, cents |-> 1250])
          @@ (pho :> [words |-> {"soup"}, tags |-> {"mild"}, cents |-> 1100])
          @@ (ribs :> [words |-> {"bbq"}, tags |-> {"rich"}, cents |-> 2400])
Known == <<"bbq", "barbecue", "thai">>
Usual == "barbecue" :> "bbq"
Limits == "under30min" :> 30
Guesses == {[cuisine |-> "thai", minutes |-> 30], [cuisine |-> None, minutes |-> -5]}

Request(kind, words) ==
    [kind |-> kind, user |-> ann, words |-> words, filter |-> {}, taste |-> None, dish |-> None]
Asked ==
    {Request("stream", <<>>), Request("stream", <<"thai", "soup">>), Request("stream", <<"spicy">>),
     [Request("dishes", <<"thai">>) EXCEPT !.filter = {"spicy", "under15", "rating45"}],
     [Request("dishes", <<"thai">>) EXCEPT !.filter = {"citrus", "under30"}],
     [Request("recommend", <<>>) EXCEPT !.taste =
         [spice |-> 40, citrus |-> 6, richness |-> 9, acidity |-> 0]],
     Request("recommend", <<>>), Request("search", <<>>), Request("search", <<"barbecue">>),
     Request("chat", <<>>), Request("chat", <<"hello">>), Request("chat", <<"under30min">>),
     [Request("dish", <<>>) EXCEPT !.dish = tom], Request("favorites", <<>>)}
=============================================================================
