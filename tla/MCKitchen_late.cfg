SPECIFICATION Spec
CONSTANTS
    borscht = borscht
    ramen = ramen
    lunch = lunch
    dinner = dinner
    h1 = h1
    h2 = h2
    Dishes = {borscht, ramen}
    Meals = {lunch, dinner}
    Handlers = {h1, h2}
    MaxActs = 4
    Catalogue <- OneKnown
    Yesterday = {borscht}
SYMMETRY Symmetry
PROPERTIES
    LateAnswerOnlyRedraws
