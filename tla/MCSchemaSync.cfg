SPECIFICATION Spec
CONSTANTS
    Table = {orders, users}
    Column = {id}
    Part = {key}
    Type = {int}
    Comment = {note}
    MaxEdits = 3
SYMMETRY Tables
INVARIANTS CatalogueCurrent CommentsFollowed
PROPERTY DescriptionsSurvive
