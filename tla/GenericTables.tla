---------------------------- MODULE GenericTables ----------------------------
(***************************************************************************)
(* The tables behind the generated CRUD of the six entities: the columns   *)
(* of each row with their sorts, the columns a create, a full update and a *)
(* partial update carry, the columns a response shows, the row rules of    *)
(* the write guard, and the trees of routes that serve them.  A sort that  *)
(* ends in "?" is an Option in the source.                                 *)
(***************************************************************************)
EXTENDS FiniteSets

Kinds == {"Blog", "Post", "PostTag", "PostViewReceipt", "TagCategory", "Tag"}

BlogColumns == [website_id |-> "uuid", name |-> "text", subtitle |-> "text?",
                description |-> "text?", archived_at |-> "moment?"]
PostColumns == [blog_id |-> "uuid", website_id |-> "uuid", title |-> "text", slug |-> "slug",
                content |-> "text?", teaser |-> "text?", cover |-> "json?",
                author_officer |-> "uuid?", author_name |-> "text?",
                is_published |-> "flag", published_date |-> "moment?",
                post_date |-> "moment", visits |-> "count", allow_comments |-> "flag",
                archived_at |-> "moment?", archived_by_blog_id |-> "uuid?"]
PostTagColumns == [post_id |-> "uuid", tag_id |-> "uuid"]
ReceiptColumns == [post_id |-> "uuid", view_token |-> "text", window_start |-> "day",
                   occurred_at |-> "moment"]
CategoryColumns == [name |-> "text"]
TagColumns == [name |-> "text", slug |-> "slug", category_id |-> "uuid?"]

Columns == [Blog |-> BlogColumns, Post |-> PostColumns, PostTag |-> PostTagColumns,
            PostViewReceipt |-> ReceiptColumns, TagCategory |-> CategoryColumns,
            Tag |-> TagColumns]

-----------------------------------------------------------------------------
\* What a create request carries, and the row takes from it.
BlogCreateDto == DOMAIN BlogColumns
PostCreateDto == DOMAIN PostColumns
PostTagCreateDto == DOMAIN PostTagColumns
ReceiptCreateDto == DOMAIN ReceiptColumns
CategoryCreateDto == DOMAIN CategoryColumns
TagCreateDto == DOMAIN TagColumns

CreateDto == [Blog |-> BlogCreateDto, Post |-> PostCreateDto, PostTag |-> PostTagCreateDto,
              PostViewReceipt |-> ReceiptCreateDto, TagCategory |-> CategoryCreateDto,
              Tag |-> TagCreateDto]

BlogFromCreate == BlogCreateDto
PostFromCreate == PostCreateDto
PostTagFromCreate == PostTagCreateDto
ReceiptFromCreate == ReceiptCreateDto
CategoryFromCreate == CategoryCreateDto
TagFromCreate == TagCreateDto

FromCreate == [Blog |-> BlogFromCreate, Post |-> PostFromCreate, PostTag |-> PostTagFromCreate,
               PostViewReceipt |-> ReceiptFromCreate, TagCategory |-> CategoryFromCreate,
               Tag |-> TagFromCreate]

\* What a full update carries, and what it assigns; a receipt's token is in neither.
BlogUpdateDto == DOMAIN BlogColumns
PostUpdateDto == DOMAIN PostColumns
PostTagUpdateDto == DOMAIN PostTagColumns
WholeReceipt == DOMAIN ReceiptColumns
ReceiptUpdateDto == DOMAIN ReceiptColumns \ {"view_token"}
CategoryUpdateDto == DOMAIN CategoryColumns
TagUpdateDto == DOMAIN TagColumns

UpdateDto == [Blog |-> BlogUpdateDto, Post |-> PostUpdateDto, PostTag |-> PostTagUpdateDto,
              PostViewReceipt |-> ReceiptUpdateDto, TagCategory |-> CategoryUpdateDto,
              Tag |-> TagUpdateDto]

BlogApplied == BlogUpdateDto
AllButVisits == PostUpdateDto \ {"visits"}
PostApplied == PostUpdateDto
PostTagApplied == PostTagUpdateDto
ReceiptApplied == ReceiptUpdateDto
CategoryApplied == CategoryUpdateDto
TagApplied == TagUpdateDto

Applied == [Blog |-> BlogApplied, Post |-> PostApplied, PostTag |-> PostTagApplied,
            PostViewReceipt |-> ReceiptApplied, TagCategory |-> CategoryApplied,
            Tag |-> TagApplied]

\* The keys a partial update knows; it ignores the others, and a value that does not parse.
BlogPatched == DOMAIN BlogColumns
PostPatched == DOMAIN PostColumns
PostTagPatched == DOMAIN PostTagColumns
ReceiptPatched == DOMAIN ReceiptColumns
CategoryPatched == DOMAIN CategoryColumns
TagPatched == DOMAIN TagColumns

Patched == [Blog |-> BlogPatched, Post |-> PostPatched, PostTag |-> PostTagPatched,
            PostViewReceipt |-> ReceiptPatched, TagCategory |-> CategoryPatched,
            Tag |-> TagPatched]

\* The columns no request may rewrite once the row is there.
ReceiptProtected == {"view_token"}
Protected(k) == IF k = "PostViewReceipt" THEN ReceiptProtected ELSE {}

\* What a response shows of a row.
BlogShown == DOMAIN BlogColumns
PostShown == DOMAIN PostColumns
PostTagShown == DOMAIN PostTagColumns
ReceiptShown == DOMAIN ReceiptColumns
CategoryShown == DOMAIN CategoryColumns
TagShown == DOMAIN TagColumns

Shown == [Blog |-> BlogShown, Post |-> PostShown, PostTag |-> PostTagShown,
          PostViewReceipt |-> ReceiptShown, TagCategory |-> CategoryShown, Tag |-> TagShown]

-----------------------------------------------------------------------------
\* What the verbs rewrite: by their patches, which leave a column alone that the request
\* does not name or names null, and otherwise.
BlogPatchArms == {"name", "subtitle", "description"}
PostPatchArms == {"title", "slug", "content", "teaser", "cover", "post_date",
                  "allow_comments", "author_officer", "author_name"}
CategoryPatchArms == {"name"}
TagPatchArms == {"name", "slug"}
PatchArms == BlogPatchArms \union PostPatchArms \union CategoryPatchArms \union TagPatchArms

BlogSwitched == {"website_id", "archived_at"}
PostSwitched == {"is_published", "published_date", "archived_at", "archived_by_blog_id", "visits"}
TagSwitched == {"category_id"}
VerbColumns(k) ==
  CASE k = "Blog" -> BlogPatchArms \union BlogSwitched
    [] k = "Post" -> PostPatchArms \union PostSwitched
    [] k = "TagCategory" -> CategoryPatchArms
    [] k = "Tag" -> TagPatchArms \union TagSwitched
    [] OTHER -> {}

\* What the cascades of a blog write in its posts, those in the trash included.
Swept(k) == IF k = "Post" THEN {"archived_at", "archived_by_blog_id"} ELSE {}

-----------------------------------------------------------------------------
\* The row rules: a column and what is asked of it.
Required(cs) == cs \X {"required"}
AtMost(cs) == cs \X {"max_length"}

BlogRules == Required({"website_id", "name"}) \union AtMost({"name", "subtitle"})
PostRules == Required({"blog_id", "website_id", "title", "slug"})
               \union AtMost({"title", "slug", "teaser", "author_name"})
               \union {<<"visits", "non_negative">>}
PostTagRules == Required({"post_id", "tag_id"})
ReceiptRules == Required({"post_id", "view_token"}) \union AtMost({"view_token"})
CategoryRules == Required({"name"}) \union AtMost({"name"})
TagRulesUnbounded == Required({"name", "slug"})
TagRules == Required({"name", "slug"}) \union AtMost({"name", "slug"})

\* The write guard each service is built with.
Guarded == [Blog |-> BlogRules, Post |-> PostRules, PostTag |-> PostTagRules,
            PostViewReceipt |-> ReceiptRules, TagCategory |-> CategoryRules,
            Tag |-> TagRules]

\* The CHECKs the hardening migration adds for the shape of a slug and the day of a receipt:
\* no row rule asks for them.
Shapes == [Blog |-> {}, Post |-> {<<"slug", "shape">>}, PostTag |-> {},
           PostViewReceipt |-> {<<"window_start", "day">>}, TagCategory |-> {},
           Tag |-> {<<"slug", "shape">>}]

\* The one CHECK a table is created with.
Inline(k) == IF k = "Post" THEN {<<"visits", "non_negative">>} ELSE {}

\* The CHECKs the schema declares for the columns the row rules speak of.
Declared ==
  [Blog |-> Required({"website_id", "name"}) \union AtMost({"name", "subtitle"}),
   Post |-> Required({"blog_id", "website_id", "title", "slug"})
              \union AtMost({"title", "slug", "teaser", "author_name"})
              \union {<<"visits", "non_negative">>},
   PostTag |-> Required({"post_id", "tag_id"}),
   PostViewReceipt |-> Required({"post_id", "view_token"}) \union AtMost({"view_token"}),
   TagCategory |-> Required({"name"}) \union AtMost({"name"}),
   Tag |-> Required({"name", "slug"}) \union AtMost({"name", "slug"})]

-----------------------------------------------------------------------------
\* What a host serves: one of the module's two trees, or routes it picks per entity.
AllCrudWrites == {"PostTag", "TagCategory", "Tag"}
ReadonlyWrites == {}
BlogRoutes == {"Blog"}
PostRoutes == {"Post"}
PostTagRoutes == {"PostTag"}
ReceiptRoutes == {"PostViewReceipt"}
CategoryRoutes == {"TagCategory"}
TagRoutes == {"Tag"}

Writable(mount) ==
  CASE mount = "all_crud" -> AllCrudWrites
    [] mount = "readonly" -> ReadonlyWrites
    [] mount = "entity_routes" -> BlogRoutes \union PostRoutes \union PostTagRoutes
                                    \union ReceiptRoutes \union CategoryRoutes \union TagRoutes

\* Every repository moves a row to the trash first, but the receipts'.
BlogTrash == {"Blog"}
PostTrash == {"Post"}
PostTagTrash == {"PostTag"}
ReceiptTrash == {}
CategoryTrash == {"TagCategory"}
TagTrash == {"Tag"}
HasTrash(k) == k \in BlogTrash \union PostTrash \union PostTagTrash \union ReceiptTrash
                       \union CategoryTrash \union TagTrash
=============================================================================
