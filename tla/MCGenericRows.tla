---------------------------- MODULE MCGenericRows ----------------------------
(* Small tables: the columns whose values the rules tell apart, two per entity. *)
EXTENDS GenericRows

MCVaried == [Blog |-> {"name", "archived_at"}, Post |-> {"title", "visits"},
             PostTag |-> {"tag_id"}, PostViewReceipt |-> {"view_token", "window_start"},
             TagCategory |-> {"name"}, Tag |-> {"slug", "category_id"}]
=============================================================================
